---------------------------- MODULE Spec2Model ----------------------------
(***************************************************************************)
(* A model of github.com/bobg/subcmd: Run looks a subcommand up, checks    *)
(* the type of its function against its Params, binds the remaining        *)
(* command-line tokens to typed values (flags through a flag.FlagSet,      *)
(* positional parameters one token each) and calls the function.           *)
(*                                                                         *)
(* Representation.  A string is a sequence of one-character strings, so    *)
(* that prefixes, suffixes and parsing are computed, not assumed.  A Go    *)
(* value is a record [t, v]: t is the name of its dynamic type and v a     *)
(* list of strings: one string (the canonical text of the value) for a     *)
(* scalar, the elements for a []string, the object's address for a         *)
(* pointer, nothing for nil.  Integers are kept as canonical decimal text  *)
(* (optional "-", no leading zeros), so 32- and 64-bit limits are compared *)
(* exactly and never overflow the integers of TLC.                          *)
(*                                                                         *)
(* An error is the chain its Unwrap methods walk, outermost layer first;   *)
(* the nil error is the empty chain.                                       *)
(***************************************************************************)
EXTENDS Integers, Sequences, FiniteSets, TLC

-----------------------------------------------------------------------------
(* Characters and decimal text *)

DigitChars == <<"0", "1", "2", "3", "4", "5", "6", "7", "8", "9">>

IsDigit(c) == \E i \in 1..10 : DigitChars[i] = c

DigitVal(c) == (CHOOSE i \in 1..10 : DigitChars[i] = c) - 1

AllDigits(s) == \A i \in 1..Len(s) : IsDigit(s[i])

Tail1(s) == SubSeq(s, 2, Len(s))

HasPrefix(s, p) == Len(s) >= Len(p) /\ SubSeq(s, 1, Len(p)) = p

HasSuffix(s, p) == Len(s) >= Len(p) /\ SubSeq(s, Len(s) - Len(p) + 1, Len(s)) = p

RECURSIVE TrimLeft(_, _)
TrimLeft(s, c) == IF s # <<>> /\ s[1] = c THEN TrimLeft(Tail1(s), c) ELSE s

RECURSIVE TrimRight(_, _)
TrimRight(s, c) ==
    IF s # <<>> /\ s[Len(s)] = c THEN TrimRight(SubSeq(s, 1, Len(s) - 1), c) ELSE s

(* The position of the first c in s, 0 when there is none. *)
IndexOf(s, c) ==
    IF \E i \in 1..Len(s) : s[i] = c
    THEN CHOOSE i \in 1..Len(s) : s[i] = c /\ \A j \in 1..(i - 1) : s[j] # c
    ELSE 0

(* A magnitude is a non-empty digit sequence without leading zeros. *)
NormMag(s) == LET t == TrimLeft(s, "0") IN IF t = <<>> THEN <<"0">> ELSE t

(* -1, 0, 1 as a is below, equal to or above b (both normalised). *)
CmpMag(a, b) ==
    IF Len(a) # Len(b) THEN (IF Len(a) < Len(b) THEN -1 ELSE 1)
    ELSE IF a = b THEN 0
    ELSE LET i == CHOOSE k \in 1..Len(a) :
                      a[k] # b[k] /\ \A j \in 1..(k - 1) : a[j] = b[j]
         IN IF DigitVal(a[i]) < DigitVal(b[i]) THEN -1 ELSE 1

RECURSIVE MulDigitC(_, _, _)
(* a * d + carry for a digit d, least significant digit last. *)
MulDigitC(a, d, carry) ==
    IF a = <<>> THEN (IF carry = 0 THEN <<>> ELSE <<DigitChars[carry + 1]>>)
    ELSE LET x == DigitVal(a[Len(a)]) * d + carry
         IN MulDigitC(SubSeq(a, 1, Len(a) - 1), d, x \div 10)
                \o <<DigitChars[(x % 10) + 1]>>

MulDigit(a, d) == NormMag(MulDigitC(a, d, 0))

RECURSIVE AddMagC(_, _, _)
AddMagC(a, b, carry) ==
    IF a = <<>> /\ b = <<>> THEN (IF carry = 0 THEN <<>> ELSE <<"1">>)
    ELSE LET x == (IF a = <<>> THEN 0 ELSE DigitVal(a[Len(a)]))
                  + (IF b = <<>> THEN 0 ELSE DigitVal(b[Len(b)])) + carry
             a1 == IF a = <<>> THEN <<>> ELSE SubSeq(a, 1, Len(a) - 1)
             b1 == IF b = <<>> THEN <<>> ELSE SubSeq(b, 1, Len(b) - 1)
         IN AddMagC(a1, b1, x \div 10) \o <<DigitChars[(x % 10) + 1]>>

AddMag(a, b) == NormMag(AddMagC(a, b, 0))

RECURSIVE Zeros(_)
Zeros(n) == IF n = 0 THEN <<>> ELSE <<"0">> \o Zeros(n - 1)

(* The canonical text of a signed integer: "-" only before a non-zero magnitude. *)
Signed(neg, mag) == IF neg /\ mag # <<"0">> THEN <<"-">> \o mag ELSE mag

IsNeg(txt) == txt # <<>> /\ txt[1] = "-"

-----------------------------------------------------------------------------
(* Errors: chains of layers, outermost first *)

NoText == <<>>

Layer(kind, msg, tok, param) == [kind |-> kind, msg |-> msg, tok |-> tok, param |-> param]

Nil == <<>>

(* errors.New, fmt.Errorf: one layer that unwraps to nothing. *)
ErrorString(msg) == <<Layer("errorString", msg, NoText, NoText)>>

(* fmt.Errorf whose text names a parameter ("param %s ..."). *)
ErrorNaming(msg, param) == <<Layer("errorString", msg, NoText, param)>>

(* github.com/pkg/errors Wrap and Wrapf: nil stays nil. *)
Wrap(err, msg) ==
    IF err = Nil THEN Nil ELSE <<Layer("withMessage", msg, NoText, NoText)>> \o err

(* A Wrapf that wraps a nil error too. *)
WrapfAlways(err, msg, arg) == <<Layer("withMessage", msg, arg, NoText)>> \o err

(* errors.Wrapf with one argument in its message: nil stays nil. *)
Wrapf(err, msg, arg) ==
    IF err = Nil THEN Nil ELSE <<Layer("withMessage", msg, arg, NoText)>> \o err

(* errors.Is against a sentinel, errors.As against a type: a search of the chain. *)
ErrorsIs(err, kind) == \E i \in 1..Len(err) : err[i].kind = kind

ErrorsAs(err, kind) == \E i \in 1..Len(err) : err[i].kind = kind

(* What errors.As(err, &target) leaves in target, unwrapped once more. *)
UnwrapAs(err, kind) ==
    LET i == CHOOSE k \in 1..Len(err) :
                 err[k].kind = kind /\ \A j \in 1..(k - 1) : err[j].kind # kind
    IN SubSeq(err, i + 1, Len(err))

-----------------------------------------------------------------------------
(* strconv and time.ParseDuration, on text without exponents, base prefixes, *)
(* underscores, "inf" or "nan" (no token of the model has any)               *)

MaxInt32 == <<"2", "1", "4", "7", "4", "8", "3", "6", "4", "7">>
MinInt32Mag == <<"2", "1", "4", "7", "4", "8", "3", "6", "4", "8">>
MaxUint32 == <<"4", "2", "9", "4", "9", "6", "7", "2", "9", "5">>
MaxInt64 == <<"9", "2", "2", "3", "3", "7", "2", "0", "3", "6", "8", "5", "4", "7", "7", "5", "8", "0", "7">>
MinInt64Mag == <<"9", "2", "2", "3", "3", "7", "2", "0", "3", "6", "8", "5", "4", "7", "7", "5", "8", "0", "8">>
MaxUint64 == <<"1", "8", "4", "4", "6", "7", "4", "4", "0", "7", "3", "7", "0", "9", "5", "5", "1", "6", "1", "5">>

MaxUintOf(bitSize) == IF bitSize = 32 THEN MaxUint32 ELSE MaxUint64

MaxIntOf(bitSize) == IF bitSize = 32 THEN MaxInt32 ELSE MaxInt64

MinIntMagOf(bitSize) == IF bitSize = 32 THEN MinInt32Mag ELSE MinInt64Mag

NumError(func, s, cause) ==
    <<Layer("NumError", func, s, NoText), Layer(cause, "", NoText, NoText)>>

Parsed(val) == [err |-> Nil, val |-> val]

Failed(err) == [err |-> err, val |-> NoText]

(* The digits of s before its first non-digit. *)
DigitPrefix(s) ==
    IF AllDigits(s) THEN s
    ELSE LET k == CHOOSE i \in 1..Len(s) :
                      ~IsDigit(s[i]) /\ \A j \in 1..(i - 1) : IsDigit(s[j])
         IN SubSeq(s, 1, k - 1)

(* strconv.ParseUint(s, 10, bitSize), reporting under the name func: the scan *)
(* stops at the first bad character or at the first digit that overflows.     *)
ParseUintAs(func, s, bitSize) ==
    IF s = <<>> THEN Failed(NumError(func, s, "ErrSyntax"))
    ELSE LET pre == DigitPrefix(s)
             over == pre # <<>> /\ CmpMag(NormMag(pre), MaxUintOf(bitSize)) > 0
         IN IF over THEN Failed(NumError(func, s, "ErrRange"))
            ELSE IF pre # s THEN Failed(NumError(func, s, "ErrSyntax"))
            ELSE Parsed(NormMag(s))

ParseUint(s, bitSize) == ParseUintAs("ParseUint", s, bitSize)

(* strconv.ParseInt(s, 10, bitSize). *)
ParseInt(s, bitSize) ==
    IF s = <<>> THEN Failed(NumError("ParseInt", s, "ErrSyntax"))
    ELSE LET neg == s[1] = "-"
             body == IF s[1] = "+" \/ s[1] = "-" THEN Tail1(s) ELSE s
             un == ParseUintAs("ParseInt", body, bitSize)
         IN IF un.err # Nil /\ un.err[2].kind # "ErrRange"
            THEN Failed(NumError("ParseInt", s, "ErrSyntax"))
            ELSE IF un.err # Nil THEN Failed(NumError("ParseInt", s, "ErrRange"))
            ELSE IF ~neg /\ CmpMag(un.val, MaxIntOf(bitSize)) > 0
            THEN Failed(NumError("ParseInt", s, "ErrRange"))
            ELSE IF neg /\ CmpMag(un.val, MinIntMagOf(bitSize)) > 0
            THEN Failed(NumError("ParseInt", s, "ErrRange"))
            ELSE Parsed(Signed(neg, un.val))

TrueText == <<"t", "r", "u", "e">>
FalseText == <<"f", "a", "l", "s", "e">>

TrueWords == {<<"1">>, <<"t">>, <<"T">>, <<"T", "R", "U", "E">>, <<"t", "r", "u", "e">>, <<"T", "r", "u", "e">>}
FalseWords == {<<"0">>, <<"f">>, <<"F">>, <<"F", "A", "L", "S", "E">>, <<"f", "a", "l", "s", "e">>, <<"F", "a", "l", "s", "e">>}

(* strconv.ParseBool. *)
ParseBool(s) ==
    IF s \in TrueWords THEN Parsed(TrueText)
    ELSE IF s \in FalseWords THEN Parsed(FalseText)
    ELSE Failed(NumError("ParseBool", s, "ErrSyntax"))

(* strconv.ParseFloat(s, 64) on [sign] digits [. digits]; the value is kept as *)
(* canonical decimal text: no leading zeros, no trailing fraction zeros.       *)
ParseFloat(s) ==
    LET neg == s # <<>> /\ s[1] = "-"
        body == IF s # <<>> /\ (s[1] = "+" \/ s[1] = "-") THEN Tail1(s) ELSE s
        dot == IndexOf(body, ".")
        ip == IF dot = 0 THEN body ELSE SubSeq(body, 1, dot - 1)
        fp == IF dot = 0 THEN <<>> ELSE SubSeq(body, dot + 1, Len(body))
        frac == TrimRight(fp, "0")
        mag == NormMag(ip) \o (IF frac = <<>> THEN <<>> ELSE <<".">> \o frac)
    IN IF ~AllDigits(ip) \/ ~AllDigits(fp) \/ (ip = <<>> /\ fp = <<>>)
       THEN Failed(NumError("ParseFloat", s, "ErrSyntax"))
       ELSE Parsed(IF neg /\ mag # <<"0">> THEN <<"-">> \o mag ELSE mag)

(* The unit table of time.ParseDuration that ASCII text can spell: the unit in *)
(* nanoseconds is mul * 10^zeros.                                              *)
UnitNames == {<<"n", "s">>, <<"u", "s">>, <<"m", "s">>, <<"s">>, <<"m">>, <<"h">>}

UnitZeros(u) ==
    IF u = <<"n", "s">> THEN 0
    ELSE IF u = <<"u", "s">> THEN 3
    ELSE IF u = <<"m", "s">> THEN 6
    ELSE IF u = <<"s">> THEN 9
    ELSE IF u = <<"m">> THEN 10
    ELSE 11

UnitMul(u) == IF u = <<"m">> THEN <<6>> ELSE IF u = <<"h">> THEN <<6, 6>> ELSE <<>>

RECURSIVE MulAll(_, _)
MulAll(a, ds) == IF ds = <<>> THEN a ELSE MulAll(MulDigit(a, ds[1]), Tail1(ds))

(* The unit of a duration component: its characters up to the next digit. *)
UnitPrefix(s) ==
    IF \A i \in 1..Len(s) : ~IsDigit(s[i]) THEN s
    ELSE LET k == CHOOSE i \in 1..Len(s) :
                      IsDigit(s[i]) /\ \A j \in 1..(i - 1) : ~IsDigit(s[j])
         IN SubSeq(s, 1, k - 1)

RECURSIVE DurationSum(_, _)
(* The components of a duration (whole counts), summed in nanoseconds onto acc; *)
(* <<"!">> for text that is no duration.                                        *)
DurationSum(s, acc) ==
    IF s = <<>> THEN acc
    ELSE LET n == DigitPrefix(s)
             rest == SubSeq(s, Len(n) + 1, Len(s))
             u == UnitPrefix(rest)
         IN IF n = <<>> \/ u \notin UnitNames THEN <<"!">>
            ELSE LET ns == NormMag(MulAll(NormMag(n), UnitMul(u)) \o Zeros(UnitZeros(u)))
                 IN DurationSum(SubSeq(rest, Len(u) + 1, Len(rest)), AddMag(acc, ns))

(* time.ParseDuration: [sign] then "0" or one or more count-unit components; *)
(* a sum beyond 63 bits is no duration.                                      *)
ParseDuration(s) ==
    LET neg == s # <<>> /\ s[1] = "-"
        body == IF s # <<>> /\ (s[1] = "+" \/ s[1] = "-") THEN Tail1(s) ELSE s
        sum == IF body = <<>> THEN <<"!">> ELSE DurationSum(body, <<"0">>)
    IN IF body = <<"0">> THEN Parsed(<<"0">>)
       ELSE IF sum = <<"!">> THEN Failed(ErrorString("invalid duration"))
       ELSE IF CmpMag(sum, MinInt64Mag) > 0
               \/ (~neg /\ CmpMag(sum, MaxInt64) > 0)
       THEN Failed(ErrorString("invalid duration"))
       ELSE Parsed(Signed(neg, sum))

-----------------------------------------------------------------------------
(* Go values and the Param types *)

Scalar(t, txt) == [t |-> t, v |-> <<txt>>]

NilValue == [t |-> "nil", v |-> <<>>]

TextOf(val) == val.v[1]

(* The Type constants; TInt stands for Int, and so on. *)
TBool == "Bool"
TInt == "Int"
TInt64 == "Int64"
TUint == "Uint"
TUint64 == "Uint64"
TString == "String"
TFloat64 == "Float64"
TDuration == "Duration"
TValue == "Value"

KnownTypes == {TBool, TInt, TInt64, TUint, TUint64, TString, TFloat64, TDuration, TValue}

ctxType == "context.Context"
strType == "string"
strSliceType == "[]string"
errType == "error"

(* The interface a Value parameter is passed as. *)
valueType == "flag.Value"

(* The value type of the tests: a pointer whose result is a list of strings. *)
valuetestvalue == "*valuetestvalue"

(* Type.reflectType; "panic" for a Type outside the declared set. *)
reflectType(t) ==
    CASE t = TBool -> "bool"
      [] t = TInt -> "int"
      [] t = TInt64 -> "int64"
      [] t = TUint -> "uint"
      [] t = TUint64 -> "uint64"
      [] t = TString -> "string"
      [] t = TFloat64 -> "float64"
      [] t = TDuration -> "time.Duration"
      [] OTHER -> "panic"

(* reflectType with the case of the Value kind: the interface type of the   *)
(* values a Value parameter is declared with.                               *)
reflectTypeOfKind(t) == IF t = TValue THEN valueType ELSE reflectType(t)

(* interface{}, which every type implements. *)
emptyInterface == "interface {}"

(* reflect's Implements for the interfaces the package uses. *)
Implements(t, iface) ==
    \/ iface = emptyInterface
    \/ iface = valueType /\ t = valuetestvalue
    \/ iface = ctxType /\ t \in {"*context.emptyCtx", "*context.valueCtx"}
    \/ iface = errType /\ t \in {"*errors.errorString", "*errors.fundamental"}

AssignableTo(t, u) == t = u \/ Implements(t, u)

(* valuetestvalue.Set: strings.Split(s, ","). *)
RECURSIVE Split(_)
Split(s) ==
    LET i == IndexOf(s, ",")
    IN IF i = 0 THEN <<s>>
       ELSE <<SubSeq(s, 1, i - 1)>> \o Split(SubSeq(s, i + 1, Len(s)))

(* valuetestvalue.String: strings.Join(v.result, ","). *)
RECURSIVE Join(_)
Join(parts) ==
    IF parts = <<>> THEN <<>>
    ELSE IF Len(parts) = 1 THEN parts[1]
    ELSE parts[1] \o <<",">> \o Join(Tail1(parts))

ValueSet(heap, addr, s) == [heap EXCEPT ![addr] = Split(s)]

ValueString(heap, addr) == Join(heap[addr])

-----------------------------------------------------------------------------
(* Go's numeric conversions, on canonical decimal text *)

RECURSIVE SubMagC(_, _, _)
(* a - b - borrow for a >= b, least significant digit last. *)
SubMagC(a, b, borrow) ==
    IF a = <<>> THEN <<>>
    ELSE LET x == DigitVal(a[Len(a)]) - (IF b = <<>> THEN 0 ELSE DigitVal(b[Len(b)])) - borrow
         IN SubMagC(SubSeq(a, 1, Len(a) - 1),
                    IF b = <<>> THEN <<>> ELSE SubSeq(b, 1, Len(b) - 1),
                    IF x < 0 THEN 1 ELSE 0)
                \o <<DigitChars[((x + 10) % 10) + 1]>>

SubMag(a, b) == NormMag(SubMagC(a, b, 0))

RECURSIVE HalfMagC(_, _)
(* a divided by two, most significant digit first. *)
HalfMagC(a, carry) ==
    IF a = <<>> THEN <<>>
    ELSE <<DigitChars[((carry * 10 + DigitVal(a[1])) \div 2) + 1]>>
             \o HalfMagC(Tail1(a), (carry * 10 + DigitVal(a[1])) % 2)

HalfMag(a) == NormMag(HalfMagC(a, 0))

IsOdd(a) == DigitVal(a[Len(a)]) % 2 = 1

(* 2^64 and 2^53. *)
Two64 == <<"1", "8", "4", "4", "6", "7", "4", "4", "0", "7", "3", "7", "0", "9", "5", "5", "1", "6", "1", "6">>
Two53 == <<"9", "0", "0", "7", "1", "9", "9", "2", "5", "4", "7", "4", "0", "9", "9", "2">>

Magnitude(txt) == IF IsNeg(txt) THEN Tail1(txt) ELSE txt

(* int64(v), int(v) of an integer: the value modulo 2^64, as a signed one. *)
ToInt64(txt) ==
    IF ~IsNeg(txt) /\ CmpMag(txt, MaxInt64) > 0 THEN <<"-">> \o SubMag(Two64, txt) ELSE txt

(* uint64(v), uint(v) of an integer: the value modulo 2^64. *)
ToUint64(txt) == IF IsNeg(txt) THEN SubMag(Two64, Magnitude(txt)) ELSE txt

RECURSIVE RoundTo53(_, _, _, _)
(* q * 2^k rounded to 53 significant bits, to nearest and ties to even: half *)
(* is the last bit shifted out, sticky says a one was shifted out before it. *)
RoundTo53(q, k, half, sticky) ==
    IF CmpMag(q, Two53) <= 0
    THEN MulAll(IF half /\ (sticky \/ IsOdd(q)) THEN AddMag(q, <<"1">>) ELSE q,
                [i \in 1..k |-> 2])
    ELSE RoundTo53(HalfMag(q), k + 1, IsOdd(q), sticky \/ half)

(* float64(v) of an integer. *)
ToFloat64(txt) == Signed(IsNeg(txt), RoundTo53(Magnitude(txt), 0, FALSE, FALSE))

-----------------------------------------------------------------------------
(* The coercions of a Param's Default *)

asInt(val) ==
    IF val.t \in {"int", "int8", "int16", "int32", "uint8", "uint16"}
    THEN Parsed(ToInt64(TextOf(val)))
    ELSE Failed(ErrorString("cannot convert to int"))

asInt64(val) ==
    IF val.t \in {"int", "int64", "int8", "int16", "int32", "uint8", "uint16", "uint32"}
    THEN Parsed(ToInt64(TextOf(val)))
    ELSE Failed(ErrorString("cannot convert to int64"))

(* An asUint that converts negative values as well. *)
asUintSigned(val) ==
    IF val.t \in {"int", "int8", "int16", "int32", "uint", "uint8", "uint16", "uint32"}
    THEN Parsed(ToUint64(TextOf(val)))
    ELSE Failed(ErrorString("cannot convert to uint"))

asUint(val) ==
    IF val.t \in {"int", "int8", "int16", "int32"} /\ ~IsNeg(TextOf(val))
    THEN Parsed(ToUint64(TextOf(val)))
    ELSE IF val.t \in {"uint", "uint8", "uint16", "uint32"} THEN Parsed(ToUint64(TextOf(val)))
    ELSE Failed(ErrorString("cannot convert to uint"))

asUint64(val) ==
    IF val.t \in {"int", "int8", "int16", "int32", "int64"} /\ ~IsNeg(TextOf(val))
    THEN Parsed(ToUint64(TextOf(val)))
    ELSE IF val.t \in {"uint", "uint64", "uint8", "uint16", "uint32"}
    THEN Parsed(ToUint64(TextOf(val)))
    ELSE Failed(ErrorString("cannot convert to uint64"))

asFloat64(val) ==
    IF val.t \in {"int", "uint", "int8", "int16", "int32", "int64",
                  "uint8", "uint16", "uint32", "uint64"}
    THEN Parsed(ToFloat64(TextOf(val)))
    ELSE IF val.t \in {"float32", "float64"} THEN Parsed(TextOf(val))
    ELSE Failed(ErrorString("cannot convert to float64"))

asDuration(val) ==
    IF val.t = "time.Duration" THEN Parsed(TextOf(val))
    ELSE IF asInt64(val).err # Nil THEN Failed(ErrorString("cannot convert to time.Duration"))
    ELSE Parsed(asInt64(val).val)

-----------------------------------------------------------------------------
(* flag.FlagSet: a list of flags [name, typ, val]; val is the text of the   *)
(* flag's current value, or for a Value flag the address of the flag.Value  *)

Flag(name, typ, val) == [name |-> name, typ |-> typ, val |-> val]

LookupFlag(fs, name) ==
    IF \E i \in 1..Len(fs) : fs[i].name = name
    THEN CHOOSE i \in 1..Len(fs) : fs[i].name = name
    ELSE 0

(* The Set method of the flag's value, on text: the standard kinds parse with *)
(* the machine's word size (64 bits); a Value flag keeps its object.          *)
FlagText(f, s) ==
    CASE f.typ = TBool -> ParseBool(s)
      [] f.typ = TInt -> ParseInt(s, 64)
      [] f.typ = TInt64 -> ParseInt(s, 64)
      [] f.typ = TUint -> ParseUint(s, 64)
      [] f.typ = TUint64 -> ParseUint(s, 64)
      [] f.typ = TString -> Parsed(s)
      [] f.typ = TFloat64 -> ParseFloat(s)
      [] f.typ = TDuration -> ParseDuration(s)
      [] OTHER -> Parsed(f.val)

StoreFlag(fs, i, s, heap, r) ==
    IF r.err # Nil
    THEN [err |-> ErrorString("invalid value for flag"), fs |-> fs, heap |-> heap]
    ELSE [err |-> Nil,
          fs |-> [fs EXCEPT ![i].val = r.val],
          heap |-> IF fs[i].typ = TValue THEN ValueSet(heap, fs[i].val, s) ELSE heap]

(* Flag.Value.Set(s) for the i-th flag; a Value flag calls the object's own Set. *)
FlagSetValue(fs, i, s, heap) == StoreFlag(fs, i, s, heap, FlagText(fs[i], s))

(* What parseOne returns, with the FlagSet's state: seen says a flag was parsed. *)
ParseOne(seen, err, fs, args, heap) ==
    [seen |-> seen, err |-> err, fs |-> fs, args |-> args, heap |-> heap]

(* The name of a flag token and its "=value", if it has one. *)
SplitFlag(spec) ==
    LET eq == IndexOf(Tail1(spec), "=")
    IN [name |-> IF eq # 0 THEN SubSeq(spec, 1, eq) ELSE spec,
        hasValue |-> eq # 0,
        value |-> IF eq # 0 THEN SubSeq(spec, eq + 2, Len(spec)) ELSE <<>>]

AfterSet(r, rest) == ParseOne(r.err = Nil, r.err, r.fs, rest, r.heap)

ErrHelp == <<Layer("ErrHelp", "flag: help requested", NoText, NoText)>>

SetFlag(fs, rest, heap, f, i) ==
    IF i = 0
    THEN ParseOne(FALSE,
                  IF f.name = <<"h">> \/ f.name = <<"h", "e", "l", "p">> THEN ErrHelp
                  ELSE ErrorString("flag provided but not defined"),
                  fs, rest, heap)
    ELSE IF fs[i].typ = TBool
    THEN AfterSet(FlagSetValue(fs, i, IF f.hasValue THEN f.value ELSE TrueText, heap), rest)
    ELSE IF ~f.hasValue /\ rest = <<>>
    THEN ParseOne(FALSE, ErrorString("flag needs an argument"), fs, rest, heap)
    ELSE AfterSet(FlagSetValue(fs, i, IF f.hasValue THEN f.value ELSE rest[1], heap),
                  IF f.hasValue THEN rest ELSE Tail1(rest))

ParseNamed(fs, rest, heap, f) == SetFlag(fs, rest, heap, f, LookupFlag(fs, f.name))

ParseSpec(fs, rest, heap, spec) ==
    IF spec = <<>> \/ spec[1] = "-" \/ spec[1] = "="
    THEN ParseOne(FALSE, ErrorString("bad flag syntax"), fs, rest, heap)
    ELSE ParseNamed(fs, rest, heap, SplitFlag(spec))

(* FlagSet.parseOne: a token that is no flag, or "--", ends the flags. *)
parseOne(fs, args, heap) ==
    IF args = <<>> THEN ParseOne(FALSE, Nil, fs, args, heap)
    ELSE IF Len(args[1]) < 2 \/ args[1][1] # "-" THEN ParseOne(FALSE, Nil, fs, args, heap)
    ELSE IF args[1] = <<"-", "-">> THEN ParseOne(FALSE, Nil, fs, Tail1(args), heap)
    ELSE ParseSpec(fs, Tail1(args), heap,
                   SubSeq(args[1], IF args[1][2] = "-" THEN 3 ELSE 2, Len(args[1])))

RECURSIVE FlagParseLoop(_)
(* FlagSet.Parse under flag.ContinueOnError: parseOne until it sees no flag. *)
FlagParseLoop(r) ==
    IF r.seen THEN FlagParseLoop(parseOne(r.fs, r.args, r.heap))
    ELSE [err |-> r.err, fs |-> r.fs, args |-> r.args, heap |-> r.heap]

FlagParse(fs, args, heap) == FlagParseLoop(ParseOne(TRUE, Nil, fs, args, heap))

-----------------------------------------------------------------------------
(* Binding: ToFlagSet, the positional parsers, parseArgs *)

Param(name, typ, dflt) == [Name |-> name, Type |-> typ, Default |-> dflt]

(* No parameter is a flag. *)
NeverFlagParam(p) == FALSE

IsFlagParam(p) == HasPrefix(p.Name, <<"-">>)

IsOptional(p) == HasSuffix(p.Name, <<"?">>)

(* reflect.PtrTo for the types flags are stored in. *)
PtrTo(t) ==
    CASE t = "int" -> "*int"
      [] t = "int64" -> "*int64"
      [] t = "uint" -> "*uint"
      [] t = "uint64" -> "*uint64"
      [] t = "float64" -> "*float64"
      [] t = "time.Duration" -> "*time.Duration"
      [] OTHER -> "*"

(* The pointer ToFlagSet keeps for a flag: for a standard kind a pointer to *)
(* the flag's variable, for a Value flag the flag.Value itself.             *)
Ptr(t, elem, flag) == [t |-> t, elem |-> elem, flag |-> flag]

ToFlagSetResult(err, fs, ptrs, positional) ==
    [err |-> err, fs |-> fs, ptrs |-> ptrs, positional |-> positional]

(* The flag a flag parameter defines, or the error its Default causes. *)
DefineFlag(p) ==
    LET name == TrimLeft(p.Name, "-")
        typ == p.Type
        coerced == CASE typ = TInt -> asInt(p.Default)
                     [] typ = TInt64 -> asInt64(p.Default)
                     [] typ = TUint -> asUint(p.Default)
                     [] typ = TUint64 -> asUint64(p.Default)
                     [] typ = TFloat64 -> asFloat64(p.Default)
                     [] typ = TDuration -> asDuration(p.Default)
                     [] OTHER -> Parsed(NoText)
    IN CASE typ = TBool ->
              [err |-> Nil,
               flag |-> Flag(name, typ, IF p.Default.t = "bool" THEN TextOf(p.Default) ELSE FalseText),
               ptr |-> Ptr("*bool", "bool", name)]
         [] typ \in {TInt, TInt64, TUint, TUint64, TFloat64, TDuration} ->
              [err |-> coerced.err,
               flag |-> Flag(name, typ, coerced.val),
               ptr |-> Ptr(PtrTo(reflectType(typ)), reflectType(typ), name)]
         [] typ = TString ->
              [err |-> IF p.Default.t = "string" THEN Nil
                       ELSE ErrorNaming("param has type String but default value has another type", p.Name),
               flag |-> Flag(name, typ, IF p.Default.t = "string" THEN TextOf(p.Default) ELSE NoText),
               ptr |-> Ptr("*string", "string", name)]
         [] typ = TValue ->
              [err |-> IF Implements(p.Default.t, valueType) THEN Nil
                       ELSE ErrorNaming("param has type Value but default value has another type", p.Name),
               flag |-> Flag(name, typ, IF Implements(p.Default.t, valueType) THEN TextOf(p.Default) ELSE NoText),
               ptr |-> Ptr(p.Default.t, p.Default.t, name)]
         [] OTHER ->
              [err |-> ErrorString("unknown arg type"),
               flag |-> Flag(name, typ, NoText),
               ptr |-> Ptr("", "", name)]

RECURSIVE ToFlagSetFrom(_, _, _, _)
ToFlagSetWith(params, fs, ptrs, positional, d) ==
    IF d.err # Nil THEN ToFlagSetResult(d.err, <<>>, <<>>, <<>>)
    ELSE ToFlagSetFrom(Tail1(params), Append(fs, d.flag), Append(ptrs, d.ptr), positional)

ToFlagSetFrom(params, fs, ptrs, positional) ==
    IF params = <<>> THEN ToFlagSetResult(Nil, fs, ptrs, positional)
    ELSE IF IsFlagParam(params[1])
    THEN ToFlagSetWith(params, fs, ptrs, positional, DefineFlag(params[1]))
    ELSE ToFlagSetFrom(Tail1(params), fs, ptrs, Append(positional, params[1]))

(* ToFlagSet: every parameter whose name starts with "-" defines a flag, every *)
(* other one is positional, wherever it stands in the list.                    *)
ToFlagSet(params) == ToFlagSetFrom(params, <<>>, <<>>, <<>>)

(* What a positional parser leaves: the error, the tokens left, the values so far. *)
PosResult(err, args, argvals, heap) ==
    [err |-> err, args |-> args, argvals |-> argvals, heap |-> heap]

(* The conversion error returned as it is, not in a ParseErr. *)
ParseErrBare(err) == err

ParseErr(err) == <<Layer("ParseErr", "parse error", NoText, NoText)>> \o err

(* PosWith leaving the token it parsed in the list. *)
PosWithTokenKept(dflt, parsed, t, args, argvals, heap) ==
    IF dflt.err # Nil THEN [err |-> <<[kind |-> "ParseErr", msg |-> "parse error", tok |-> <<>>, param |-> <<>>]>> \o dflt.err,
                            args |-> args, argvals |-> argvals, heap |-> heap]
    ELSE IF args # <<>> /\ parsed.err # Nil
    THEN [err |-> <<[kind |-> "ParseErr", msg |-> "parse error", tok |-> <<>>, param |-> <<>>]>> \o parsed.err,
          args |-> args, argvals |-> argvals, heap |-> heap]
    ELSE [err |-> <<>>, args |-> args,
          argvals |-> Append(argvals, [t |-> t, v |-> <<IF args # <<>> THEN parsed.val ELSE dflt.val>>]),
          heap |-> heap]

(* A parser that looks at the token first and coerces the Default only when *)
(* no token is left.                                                        *)
PosWithTokenFirst(dflt, parsed, t, args, argvals, heap) ==
    IF args # <<>>
    THEN (IF parsed.err # Nil THEN PosResult(ParseErr(parsed.err), args, argvals, heap)
          ELSE PosResult(Nil, Tail1(args), Append(argvals, Scalar(t, parsed.val)), heap))
    ELSE IF dflt.err # Nil THEN PosResult(ParseErr(dflt.err), args, argvals, heap)
    ELSE PosResult(Nil, args, Append(argvals, Scalar(t, dflt.val)), heap)

(* The shape the parsers of the standard kinds share: coerce the Default, and *)
(* if a token is left parse it in place of the Default and consume it.        *)
PosWith(dflt, parsed, t, args, argvals, heap) ==
    IF dflt.err # Nil THEN PosResult(ParseErr(dflt.err), args, argvals, heap)
    ELSE IF args # <<>>
    THEN (IF parsed.err # Nil THEN PosResult(ParseErr(parsed.err), args, argvals, heap)
          ELSE PosResult(Nil, Tail1(args), Append(argvals, Scalar(t, parsed.val)), heap))
    ELSE PosResult(Nil, args, Append(argvals, Scalar(t, dflt.val)), heap)

Token1(args) == IF args = <<>> THEN NoText ELSE args[1]

parseBoolPos(args, argvals, p, heap) ==
    PosWith(IF p.Default.t = "bool" THEN Parsed(TextOf(p.Default))
            ELSE Failed(ErrorNaming("param has type Bool but default value has another type", p.Name)),
            ParseBool(Token1(args)), "bool", args, argvals, heap)

(* parseIntPos parsing with the machine's word size. *)
parseIntPosWide(args, argvals, p, heap) ==
    PosWith(asInt(p.Default), ParseInt(Token1(args), 64), "int", args, argvals, heap)

parseIntPos(args, argvals, p, heap) ==
    PosWith(asInt(p.Default), ParseInt(Token1(args), 32), "int", args, argvals, heap)

parseInt64Pos(args, argvals, p, heap) ==
    PosWith(asInt64(p.Default), ParseInt(Token1(args), 64), "int64", args, argvals, heap)

parseUintPos(args, argvals, p, heap) ==
    PosWith(asUint(p.Default), ParseUint(Token1(args), 32), "uint", args, argvals, heap)

parseUint64Pos(args, argvals, p, heap) ==
    PosWith(asUint64(p.Default), ParseUint(Token1(args), 64), "uint64", args, argvals, heap)

parseStringPos(args, argvals, p, heap) ==
    PosWith(IF p.Default.t = "string" THEN Parsed(TextOf(p.Default))
            ELSE Failed(ErrorNaming("param has type String but default value has another type", p.Name)),
            Parsed(Token1(args)), "string", args, argvals, heap)

parseFloat64Pos(args, argvals, p, heap) ==
    PosWith(asFloat64(p.Default), ParseFloat(Token1(args)), "float64", args, argvals, heap)

parseDurationPos(args, argvals, p, heap) ==
    PosWith(asDuration(p.Default), ParseDuration(Token1(args)), "time.Duration",
            args, argvals, heap)

(* parseValuePos: the Default itself is Set from the token and handed on. *)
parseValuePos(args, argvals, p, heap) ==
    IF ~Implements(p.Default.t, valueType)
    THEN PosResult(ParseErr(ErrorNaming("param is not a flag.Value", p.Name)), args, argvals, heap)
    ELSE IF args # <<>>
    THEN PosResult(Nil, Tail1(args), Append(argvals, p.Default),
                   ValueSet(heap, TextOf(p.Default), args[1]))
    ELSE PosResult(Nil, args, Append(argvals, p.Default), heap)

ErrTooFewArgs == <<Layer("ErrTooFewArgs", "too few arguments", NoText, NoText)>>

(* parsePositionalArg without its test for a required parameter left without a token. *)
parsePositionalArgAnyway(p, args, argvals, heap) ==
    CASE p.Type = TInt -> parseIntPos(args, argvals, p, heap)
      [] p.Type = TUint -> parseUintPos(args, argvals, p, heap)
      [] p.Type = TString -> parseStringPos(args, argvals, p, heap)
      [] p.Type = TDuration -> parseDurationPos(args, argvals, p, heap)
      [] OTHER -> parseValuePos(args, argvals, p, heap)

parsePositionalArg(p, args, argvals, heap) ==
    IF args = <<>> /\ ~IsOptional(p) THEN PosResult(ErrTooFewArgs, args, argvals, heap)
    ELSE CASE p.Type = TBool -> parseBoolPos(args, argvals, p, heap)
           [] p.Type = TInt -> parseIntPos(args, argvals, p, heap)
           [] p.Type = TInt64 -> parseInt64Pos(args, argvals, p, heap)
           [] p.Type = TUint -> parseUintPos(args, argvals, p, heap)
           [] p.Type = TUint64 -> parseUint64Pos(args, argvals, p, heap)
           [] p.Type = TString -> parseStringPos(args, argvals, p, heap)
           [] p.Type = TFloat64 -> parseFloat64Pos(args, argvals, p, heap)
           [] p.Type = TDuration -> parseDurationPos(args, argvals, p, heap)
           [] p.Type = TValue -> parseValuePos(args, argvals, p, heap)
           [] OTHER -> PosResult(ErrorString("unknown arg type"), args, argvals, heap)

RECURSIVE ParsePositionalsFrom(_, _)
(* The loop of parseArgs over the positional parameters: the first error ends it. *)
ParsePositionalsFrom(positional, r) ==
    IF positional = <<>> \/ r.err # Nil THEN r
    ELSE ParsePositionalsFrom(Tail1(positional),
                              parsePositionalArg(positional[1], r.args, r.argvals, r.heap))

RECURSIVE ParsePositionalsOn(_, _)
(* A loop over the positional parameters that goes on after an error, with  *)
(* the tokens after the one that failed, and keeps the last error.          *)
ParsePositionalsOn(positional, r) ==
    IF positional = <<>> THEN r
    ELSE ParsePositionalsOn(Tail1(positional),
             IF parsePositionalArg(positional[1], r.args, r.argvals, r.heap).err # Nil
             THEN [r EXCEPT !.err = parsePositionalArg(positional[1], r.args, r.argvals, r.heap).err,
                            !.args = IF r.args = <<>> THEN <<>> ELSE Tail1(r.args)]
             ELSE [parsePositionalArg(positional[1], r.args, r.argvals, r.heap) EXCEPT !.err = r.err])

ParsePositionalsToEnd(positional, args, argvals, heap) ==
    ParsePositionalsOn(positional, PosResult(Nil, args, argvals, heap))

ParsePositionals(positional, args, argvals, heap) ==
    ParsePositionalsFrom(positional, PosResult(Nil, args, argvals, heap))

(* The value a flag's pointer yields after Parse: the flag.Value itself for a *)
(* Value flag, the pointed-to variable otherwise.                            *)
FlagArgval(fs, ptr) ==
    LET f == fs[LookupFlag(fs, ptr.flag)]
    IN IF Implements(ptr.t, valueType) THEN Scalar(ptr.t, f.val) ELSE Scalar(ptr.elem, f.val)

ContextValue == [t |-> "*context.valueCtx", v |-> <<>>]

ArgsResult(err, argvals, fs, heap) ==
    [err |-> err, argvals |-> argvals, fs |-> fs, heap |-> heap]

(* TailArgvals spreading only the first remaining token. *)
TailArgvalsFirst(args, variadic) ==
    IF variadic THEN [i \in 1..(IF args = <<>> THEN 0 ELSE 1) |-> [t |-> "string", v |-> <<args[i]>>]]
    ELSE <<[t |-> "[]string", v |-> args]>>

(* The tail of the argument vector: one []string, or a string per token. *)
TailArgvals(args, variadic) ==
    IF variadic THEN [i \in 1..Len(args) |-> Scalar("string", args[i])]
    ELSE <<[t |-> strSliceType, v |-> args]>>

(* The end of a parseArgs that leaves out the tail when no token remains. *)
FinishArgsBare(pos, fs, variadic) ==
    IF pos.err # Nil THEN ArgsResult(pos.err, <<>>, fs, pos.heap)
    ELSE ArgsResult(Nil,
                    pos.argvals \o (IF pos.args = <<>> THEN <<>> ELSE TailArgvals(pos.args, variadic)),
                    fs, pos.heap)

(* The end of parseArgs: pos is what the positional loop left. *)
FinishArgs(pos, fs, variadic) ==
    IF pos.err # Nil THEN ArgsResult(pos.err, <<>>, fs, pos.heap)
    ELSE ArgsResult(Nil, pos.argvals \o TailArgvals(pos.args, variadic), fs, pos.heap)

(* parseArgs from the positional loop on: fp is what fs.Parse left. *)
BindPositionals(tfs, fp, variadic) ==
    FinishArgs(ParsePositionals(tfs.positional, fp.args,
                                <<ContextValue>> \o [i \in 1..Len(tfs.ptrs) |-> FlagArgval(fp.fs, tfs.ptrs[i])],
                                fp.heap),
               fp.fs, variadic)

(* ParseFlags with the error of fs.Parse dropped. *)
ParseFlagsUnchecked(tfs, fp, variadic) == BindPositionals(tfs, fp, variadic)

(* parseArgs from fs.Parse on: tfs is what ToFlagSet returned. *)
ParseFlags(tfs, fp, variadic) ==
    IF fp.err # Nil THEN ArgsResult(Wrap(fp.err, "parsing args"), <<>>, <<>>, fp.heap)
    ELSE BindPositionals(tfs, fp, variadic)

(* Some required positional parameter is declared after an optional one. *)
RequiredAfterOptional(positional) ==
    \E i, j \in 1..Len(positional) :
        i < j /\ IsOptional(positional[i]) /\ ~IsOptional(positional[j])

(* A binding that turns down a list with a required positional after an     *)
(* optional one before it looks at the tokens.                              *)
parseArgsOrdered(tfs, args, variadic, heap) ==
    IF tfs.err # Nil THEN ArgsResult(tfs.err, <<>>, <<>>, heap)
    ELSE IF RequiredAfterOptional(tfs.positional)
    THEN ArgsResult(ErrorString("required parameter after optional"), <<>>, <<>>, heap)
    ELSE ParseFlags(tfs, FlagParse(tfs.fs, args, heap), variadic)

parseArgsWith(tfs, args, variadic, heap) ==
    IF tfs.err # Nil THEN ArgsResult(tfs.err, <<>>, <<>>, heap)
    ELSE ParseFlags(tfs, FlagParse(tfs.fs, args, heap), variadic)

parseArgs(params, args, variadic, heap) ==
    parseArgsWith(ToFlagSet(params), args, variadic, heap)

-----------------------------------------------------------------------------
(* Function types and the check of a handler against its parameters *)

FuncOf(in, out, variadic) == [in |-> in, out |-> out, variadic |-> variadic]

(* A handler: its function type and the error its body returns. *)
Func(in, out, variadic, ret) == [ft |-> FuncOf(in, out, variadic), ret |-> ret]

Subcmd(F, Params) == [F |-> F, Params |-> Params]

(* FuncTypeErr{Got, Want}: the type of F and the type the Params imply. *)
FuncTypeErr(Got, Want) ==
    <<[kind |-> "FuncTypeErr", msg |-> "function has wrong type", tok |-> NoText,
       param |-> NoText, Got |-> Got, Want |-> Want]>>

(* No parameter types but the context and the rest. *)
WantInNoParams(params) == <<ctxType, strSliceType>>

(* The parameter types checkFuncType wants; "panic" in it when a Type is unknown. *)
WantIn(params) ==
    <<ctxType>> \o [i \in 1..Len(params) |-> reflectTypeOfKind(params[i].Type)] \o <<strSliceType>>

checkFuncTypePanics(params) ==
    \E i \in 1..Len(params) : reflectTypeOfKind(params[i].Type) = "panic"

(* A check that takes every function type. *)
checkFuncTypeLax(ft, params) == Nil

(* The check by assignability: the handler's parameters take what the Params *)
(* imply, and its result, if any, implements error.                          *)
checkFuncTypeAssignable(ft, params) ==
    IF /\ DOMAIN ft = {"in", "out", "variadic"}
       /\ Len(ft.in) = Len(params) + 2
       /\ AssignableTo(ctxType, ft.in[1])
       /\ ft.in[Len(ft.in)] = strSliceType
       /\ \A k \in 1..Len(params) :
              AssignableTo(reflectTypeOfKind(params[k].Type), ft.in[k + 1])
       /\ Len(ft.out) <= 1
       /\ \A i \in 1..Len(ft.out) : AssignableTo(ft.out[i], errType)
    THEN Nil
    ELSE FuncTypeErr(ft, FuncOf(WantIn(params), <<errType>>, FALSE))

checkFuncType(ft, params) ==
    LET in == WantIn(params)
        out == <<errType>>
    IN IF ft = FuncOf(in, <<>>, TRUE) THEN Nil
       ELSE IF ft = FuncOf(in, out, TRUE) THEN Nil
       ELSE IF ft = FuncOf(in, <<>>, FALSE) THEN Nil
       ELSE IF ft # FuncOf(in, out, FALSE) THEN FuncTypeErr(ft, FuncOf(in, out, FALSE))
       ELSE Nil

(* The loop of Run over argvals: the first argument whose type the handler *)
(* does not take, 0 when there is none.                                    *)
ArgTakes(ft, argvals, i) ==
    IF ft.variadic /\ i >= Len(ft.in) THEN AssignableTo(argvals[i].t, strType)
    ELSE i <= Len(ft.in) /\ AssignableTo(argvals[i].t, ft.in[i])

FirstBadArg(ft, argvals) ==
    IF \A i \in 1..Len(argvals) : ArgTakes(ft, argvals, i) THEN 0
    ELSE CHOOSE i \in 1..Len(argvals) :
             ~ArgTakes(ft, argvals, i) /\ \A j \in 1..(i - 1) : ArgTakes(ft, argvals, j)

(* What fv.Call hands the handler's body: its typed parameters and its rest. *)
HandlerView(ft, argvals) ==
    LET numIn == Len(ft.in)
    IN [params |-> SubSeq(argvals, 2, numIn - 1),
        rest |-> IF ft.variadic
                 THEN [i \in 1..(Len(argvals) - numIn + 1) |-> TextOf(argvals[numIn - 1 + i])]
                 ELSE argvals[numIn].v]

NoView == [params |-> <<>>, rest |-> <<>>]

-----------------------------------------------------------------------------
(* The command under test: its subcommands, handlers and the tokens tried *)

(* The address of the one valuetestvalue the Value parameters declare. *)
dflt == <<"v">>

InitHeap == [a \in {dflt} |-> << <<"d", "f", "l", "t">> >>]

BoolOf(b) == Scalar("bool", IF b THEN TrueText ELSE FalseText)

IntOf(txt) == Scalar("int", txt)

StringOf(txt) == Scalar("string", txt)

(* An error a handler's body returns. *)
HandlerErr == ErrorString("handler failed")

(* A Type outside the declared constants. *)
TUnknown == "Type(99)"

FlagF == Param(<<"-", "f">>, TBool, BoolOf(FALSE))

Req == Param(<<"r", "e", "q">>, TInt, IntOf(<<"0">>))

Opt == Param(<<"o", "p", "t", "?">>, TInt, IntOf(<<"7">>))

SubcmdNames ==
    {<<"a">>, <<"a", "v">>, <<"r">>, <<"q">>, <<"k">>, <<"d">>, <<"v">>, <<"w">>, <<"b">>,
     <<"u">>, <<"m">>, <<"e">>, <<"o">>}

(* Cmd.Subcmds: the map from name to Subcmd. *)
Subcmds(name) ==
    CASE name = <<"a">> ->
           Subcmd(Func(<<ctxType, "bool", "int", "int", strSliceType>>, <<errType>>, FALSE, Nil),
                  <<FlagF, Req, Opt>>)
      [] name = <<"a", "v">> ->
           Subcmd(Func(<<ctxType, "bool", "int", "int", strSliceType>>, <<errType>>, TRUE, Nil),
                  <<FlagF, Req, Opt>>)
      [] name = <<"r">> ->
           Subcmd(Func(<<ctxType, "string", "string", strSliceType>>, <<>>, FALSE, Nil),
                  <<Param(<<"s">>, TString, StringOf(<<>>)),
                    Param(<<"-", "t">>, TString, StringOf(<<"d">>))>>)
      [] name = <<"q">> ->
           Subcmd(Func(<<ctxType, "int", "bool", strSliceType>>, <<errType>>, FALSE, Nil),
                  <<Param(<<"n">>, TInt, IntOf(<<"0">>)), FlagF>>)
      [] name = <<"k">> ->
           Subcmd(Func(<<ctxType, "int64", "uint", "time.Duration", "bool", strSliceType>>,
                       <<errType>>, TRUE, Nil),
                  <<Param(<<"-", "n">>, TInt64, IntOf(<<"5">>)),
                    Param(<<"u">>, TUint, Scalar("uint8", <<"0">>)),
                    Param(<<"d">>, TDuration, IntOf(<<"0">>)),
                    Param(<<"t", "?">>, TBool, BoolOf(FALSE))>>)
      [] name = <<"d">> ->
           Subcmd(Func(<<ctxType, "int", "float64", strSliceType>>, <<errType>>, FALSE, Nil),
                  <<Param(<<"n">>, TInt, StringOf(<<"x">>)),
                    Param(<<"x", "?">>, TFloat64, IntOf(<<"1">>))>>)
      [] name = <<"v">> ->
           Subcmd(Func(<<ctxType, valueType, valueType, strSliceType>>, <<errType>>, FALSE, Nil),
                  <<Param(<<"-", "x">>, TValue, Scalar(valuetestvalue, dflt)),
                    Param(<<"p", "?">>, TValue, Scalar(valuetestvalue, dflt))>>)
      [] name = <<"w">> ->
           Subcmd(Func(<<ctxType, valueType, valueType, strSliceType>>, <<errType>>, FALSE, Nil),
                  <<Param(<<"x">>, TValue, Scalar(valuetestvalue, dflt)),
                    Param(<<"y">>, TValue, Scalar(valuetestvalue, dflt))>>)
      [] name = <<"b">> ->
           Subcmd(Func(<<ctxType, "bool", strSliceType>>, <<>>, TRUE, Nil),
                  <<Param(<<"-", "b">>, TBool, StringOf(<<"y", "e", "s">>))>>)
      [] name = <<"u">> ->
           Subcmd(Func(<<ctxType, "int", strSliceType>>, <<errType>>, FALSE, Nil),
                  <<Param(<<"z">>, TUnknown, IntOf(<<"0">>))>>)
      [] name = <<"m">> ->
           Subcmd(Func(<<ctxType, "string", strSliceType>>, <<errType>>, FALSE, Nil),
                  <<Param(<<"n">>, TInt, IntOf(<<"0">>))>>)
      [] name = <<"e">> ->
           Subcmd(Func(<<ctxType, strSliceType>>, <<errType>>, FALSE, HandlerErr), <<>>)
      [] name = <<"o">> ->
           Subcmd(Func(<<ctxType, "int", "int", strSliceType>>, <<errType>>, FALSE, Nil),
                  <<Opt, Req>>)

HelpName == <<"h", "e", "l", "p">>

OtherName == <<"z", "z">>

Names == SubcmdNames \cup {HelpName, OtherName}

Tokens ==
    {<<"4", "2">>, <<"2", "1", "4", "7", "4", "8", "3", "6", "4", "8">>,
     <<"4", "2", "9", "4", "9", "6", "7", "2", "9", "6">>, <<"a", ",", "b">>,
     <<"7", "s">>, <<"-", "f">>, <<"-", "x">>}

(* The most tokens a command line carries after the subcommand's name. *)
MaxArgs == 2

TokenLists == UNION {[1..n -> Tokens] : n \in 0..MaxArgs}

(* The argument slices Run is called with: empty, or a name and its tokens. *)
ArgLists == {<<>>} \cup {<<n>> \o l : n \in Names, l \in TokenLists}

-----------------------------------------------------------------------------
(* Contexts *)

(* The nil pointer: no list of subcommand pairs is kept in the context. *)
NoList == <<>>

(* A context holds, under the package's keys, the pointer to a list of      *)
(* subcommand pairs (an address of the heap), a FlagSet, and the value      *)
(* given to WithSuppressCheck.                                              *)
Background == [pairs |-> NoList, hasFS |-> FALSE, fs |-> <<>>, suppress |-> "unset"]

withFlagSet(c, fs) == [c EXCEPT !.hasFS = TRUE, !.fs = fs]

(* A *flag.FlagSet: nil, or the flags it points to. *)
NilFlagSet == [nil |-> TRUE, flags |-> <<>>]

FlagSet(c) == IF c.hasFS THEN [nil |-> FALSE, flags |-> c.fs] ELSE NilFlagSet

(* The addresses new lists of subcommand pairs are allocated at. *)
ListAddrs == {<<"l", "1">>, <<"l", "2">>}

NewList(h) == CHOOSE a \in ListAddrs : a \notin DOMAIN h

(* The list read through the context's pointer, nil when there is none. *)
subcmdPairList(c, h) == IF c.pairs = NoList THEN <<>> ELSE h[c.pairs]

(* addSubcmdPair: a context without a list gets a new one; a context with   *)
(* one is returned as it is, after the pair is appended to its list in      *)
(* place. A pair is modelled by its name.                                   *)
(* An addSubcmdPair that puts the new pair before the ones recorded. *)
addSubcmdPairFront(c, h, name) ==
    IF c.pairs = NoList
    THEN [ctx |-> [c EXCEPT !.pairs = NewList(h)], heap |-> h @@ (NewList(h) :> <<name>>)]
    ELSE [ctx |-> c, heap |-> [h EXCEPT ![c.pairs] = <<name>> \o @]]

addSubcmdPair(c, h, name) ==
    IF c.pairs = NoList
    THEN [ctx |-> [c EXCEPT !.pairs = NewList(h)], heap |-> h @@ (NewList(h) :> <<name>>)]
    ELSE [ctx |-> c, heap |-> [h EXCEPT ![c.pairs] = Append(@, name)]]

WithSuppressCheck(c, suppress) == [c EXCEPT !.suppress = IF suppress THEN "true" ELSE "false"]

(* SuppressCheck: the value under the key if it is a bool, false otherwise. *)
SuppressCheck(c) == c.suppress = "true"

(* The heap once the lists of a Run that has returned are garbage. *)
Freed(h) == [a \in DOMAIN h \ ListAddrs |-> h[a]]

-----------------------------------------------------------------------------
(* Run, step by step *)

VARIABLES
    pc,       \* where Run is: "idle", "check", "parse", "call", "handler", "return", "done", "panic"
    name,     \* args[0] of this call of Run, <<>> when args is empty
    args,     \* args[1:] of this call of Run
    ctx,      \* the context Run has built so far
    argvals,  \* what parseArgs returned
    err,      \* the error Run holds or has returned
    calls,    \* how often this call of Run has entered the handler
    active,   \* the handler's body is running
    recv,     \* what the handler's body was handed
    heap,     \* the contents of the valuetestvalue objects, by address
    probe     \* the last direct call of Check, ToFlagSet or a coercion: [op, in, out]

runVars == <<pc, name, args, ctx, argvals, err, calls, active, recv, heap>>

vars == <<pc, name, args, ctx, argvals, err, calls, active, recv, heap, probe>>

(* No direct call has been made. *)
NoProbe == [op |-> "none", in |-> <<>>, out |-> <<>>]

Init ==
    /\ pc = "idle"
    /\ name = <<>>
    /\ args = <<>>
    /\ ctx = Background
    /\ argvals = <<>>
    /\ err = Nil
    /\ calls = 0
    /\ active = FALSE
    /\ recv = NoView
    /\ heap = InitHeap
    /\ probe = NoProbe

MissingSubcmdErr == <<Layer("MissingSubcmdErr", "missing subcommand", NoText, NoText)>>

(* A HelpRequestedErr that records no name. *)
HelpRequestedErrUnnamed(a) ==
    <<Layer("HelpRequestedErr", "help requested", NoText, NoText)>>

(* HelpRequestedErr with the name args[0] of what follows "help", if any. *)
HelpRequestedErr(a) ==
    <<Layer("HelpRequestedErr", "help requested", IF a # <<>> THEN a[1] ELSE NoText, NoText)>>

UnknownSubcmdErr(n) == <<Layer("UnknownSubcmdErr", "unknown subcommand", n, NoText)>>

(* Run up to the lookup of the subcommand. *)
RunDispatch(a) ==
    /\ pc = "idle"
    /\ name' = IF a = <<>> THEN <<>> ELSE a[1]
    /\ args' = IF a = <<>> THEN <<>> ELSE Tail1(a)
    /\ argvals' = <<>>
    /\ calls' = 0
    /\ active' = FALSE
    /\ recv' = NoView
    /\ IF a = <<>>
       THEN pc' = "done" /\ err' = MissingSubcmdErr /\ ctx' = Background /\ heap' = heap
       ELSE IF a[1] \notin SubcmdNames /\ a[1] = HelpName
       THEN pc' = "done" /\ err' = HelpRequestedErr(Tail1(a)) /\ ctx' = Background
            /\ heap' = heap
       ELSE IF a[1] \notin SubcmdNames
       THEN pc' = "done" /\ err' = UnknownSubcmdErr(a[1]) /\ ctx' = Background /\ heap' = heap
       ELSE pc' = "check" /\ err' = Nil
            /\ ctx' = addSubcmdPair(Background, heap, a[1]).ctx
            /\ heap' = addSubcmdPair(Background, heap, a[1]).heap
    /\ UNCHANGED probe

(* checkFuncType and the return on its error; reflectType panics on an unknown Type. *)
RunCheck ==
    /\ pc = "check"
    /\ LET subcmd == Subcmds(name)
       IN IF checkFuncTypePanics(subcmd.Params)
          THEN pc' = "panic" /\ err' = err
          ELSE LET e == checkFuncType(subcmd.F.ft, subcmd.Params)
               IN IF e # Nil
                  THEN pc' = "done" /\ err' = Wrap(e, "checking function type")
                  ELSE pc' = "parse" /\ err' = err
    /\ UNCHANGED <<name, args, ctx, argvals, calls, active, recv, heap, probe>>

(* parseArgs and the return on its error. *)
RunParse ==
    /\ pc = "parse"
    /\ LET subcmd == Subcmds(name)
           r == parseArgs(subcmd.Params, args, subcmd.F.ft.variadic, heap)
       IN /\ heap' = r.heap
          /\ IF r.err # Nil
             THEN pc' = "done" /\ err' = Wrap(r.err, "marshaling args")
                  /\ UNCHANGED <<argvals, ctx>>
             ELSE pc' = "call" /\ err' = err /\ argvals' = r.argvals
                  /\ ctx' = withFlagSet(ctx, r.fs)
    /\ UNCHANGED <<name, args, calls, active, recv, probe>>

(* The assignability loop, then fv.Call up to the entry of the handler's body. *)
RunCall ==
    /\ pc = "call"
    /\ LET ft == Subcmds(name).F.ft
       IN IF FirstBadArg(ft, argvals) # 0
          THEN pc' = "done" /\ err' = ErrorString("type of arg is not the wanted type")
               /\ UNCHANGED <<calls, active, recv>>
          ELSE pc' = "handler" /\ err' = err /\ calls' = calls + 1 /\ active' = TRUE
               /\ recv' = HandlerView(ft, argvals)
    /\ UNCHANGED <<name, args, ctx, argvals, heap, probe>>

(* The handler's body returns; Run takes its error when it has one result. *)
HandlerReturn ==
    /\ pc = "handler"
    /\ pc' = "return"
    /\ active' = FALSE
    /\ err' = IF Len(Subcmds(name).F.ft.out) = 1 THEN Subcmds(name).F.ret ELSE Nil
    /\ UNCHANGED <<name, args, ctx, argvals, calls, recv, heap, probe>>

(* Run returns the handler's error, wrapped. *)
RunReturn ==
    /\ pc = "return"
    /\ pc' = "done"
    /\ err' = Wrapf(err, "running", name)
    /\ UNCHANGED <<name, args, ctx, argvals, calls, active, recv, heap, probe>>

(* The caller has taken Run's result: Run's locals are gone, the objects the *)
(* Params point to stay as they are.                                        *)
Returned ==
    /\ pc = "done"
    /\ pc' = "idle"
    /\ name' = <<>>
    /\ args' = <<>>
    /\ ctx' = Background
    /\ argvals' = <<>>
    /\ err' = Nil
    /\ calls' = 0
    /\ active' = FALSE
    /\ recv' = NoView
    /\ heap' = Freed(heap)
    /\ UNCHANGED probe

Next ==
    \/ pc = "idle" /\ \E a \in ArgLists : RunDispatch(a)
    \/ RunCheck
    \/ RunParse
    \/ RunCall
    \/ HandlerReturn
    \/ RunReturn
    \/ Returned

Spec == Init /\ [][Next]_vars

-----------------------------------------------------------------------------
(* What the properties below speak of, in terms of the current call of Run *)

Registered == name \in SubcmdNames

Sub == Subcmds(name)

(* The handler's type is the one checkFuncType wants for the Params. *)
Matches ==
    /\ Registered
    /\ ~checkFuncTypePanics(Sub.Params)
    /\ checkFuncType(Sub.F.ft, Sub.Params) = Nil

Schema == ToFlagSet(Sub.Params)

FlagsParsed == FlagParse(Schema.fs, args, heap)

(* The tokens remaining after flag parsing. *)
Rem == FlagsParsed.args

Positional == Schema.positional

PositionalsBound == ParsePositionals(Positional, Rem, <<>>, heap)

(* Binding fails: at the flag schema, at the flags, or at a positional. *)
BindingFailure ==
    /\ Registered
    /\ \/ Schema.err # Nil
       \/ FlagsParsed.err # Nil
       \/ PositionalsBound.err # Nil

BindingSuccess ==
    /\ Registered
    /\ Schema.err = Nil
    /\ FlagsParsed.err = Nil
    /\ PositionalsBound.err = Nil

LastRequired(positional) ==
    IF \A j \in 1..Len(positional) : IsOptional(positional[j]) THEN 0
    ELSE CHOOSE j \in 1..Len(positional) :
             ~IsOptional(positional[j]) /\ \A k \in (j + 1)..Len(positional) : IsOptional(positional[k])

TooFewTokens ==
    /\ Matches
    /\ Schema.err = Nil
    /\ FlagsParsed.err = Nil
    /\ Len(Rem) < LastRequired(Positional)

(* The first required positional that is left without a token. *)
FirstStarved ==
    CHOOSE j \in (Len(Rem) + 1)..Len(Positional) :
        ~IsOptional(Positional[j]) /\ \A k \in (Len(Rem) + 1)..(j - 1) : IsOptional(Positional[k])

(* Every positional before the first starved one binds without error. *)
EarlierPositionalsBind ==
    ParsePositionals(SubSeq(Positional, 1, FirstStarved - 1), Rem, <<>>, heap).err = Nil

C3_CalledOnce ==
    (pc = "done" /\ Matches /\ BindingSuccess) => (calls = 1 /\ ~active)

(* The places of the flag parameters and of the positional ones in Params. *)
FlagPlaces == {k \in 1..Len(Sub.Params) : IsFlagParam(Sub.Params[k])}

PositionalPlaces == (1..Len(Sub.Params)) \ FlagPlaces

(* How many flag (positional) parameters are declared up to place k. *)
FlagsUpTo(k) == Cardinality({i \in FlagPlaces : i <= k})

PositionalsUpTo(k) == Cardinality({i \in PositionalPlaces : i <= k})

(* The value the k-th declared parameter is bound to: what the FlagSet of   *)
(* the context holds for a flag, what its parser made for a positional.     *)
DeclaredValue(k) ==
    IF k \in FlagPlaces THEN FlagArgval(FlagSet(ctx).flags, Schema.ptrs[FlagsUpTo(k)])
    ELSE PositionalsBound.argvals[PositionalsUpTo(k)]

(* C4 as stated: the argument vector parseArgs builds holds, after the      *)
(* context, the bound value of the k-th declared parameter at place k, for  *)
(* every parameter list, also one declaring a flag after a positional.      *)
C4_DeclaredOrder ==
    pc = "call" => \A k \in 1..Len(Sub.Params) : argvals[k + 1] = DeclaredValue(k)

(* A flag parameter occurs among the tokens flag parsing consumed. *)
FlagOccurs(p) ==
    \E i \in 1..(Len(args) - Len(Rem)) : args[i] = p.Name \/ args[i] = <<"-">> \o p.Name

(* The Default of a parameter as a value of the kind's canonical type. *)
CoercedDefault(p) ==
    Scalar(IF p.Type = TValue THEN p.Default.t ELSE reflectType(p.Type), TextOf(p.Default))

(* The values parseArgs made for the i-th flag and the j-th positional. *)
FlagValueAt(i) == argvals[1 + i]

PositionalValueAt(j) == argvals[1 + Len(Schema.ptrs) + j]

(* The value a positional's parser makes of one token. *)
ParsedToken(p, tok) == parsePositionalArg(p, <<tok>>, <<>>, heap).argvals[1]

(* C5 as stated: when binding succeeds, every flag parameter that does not  *)
(* occur in the tokens and every optional positional reached with no token  *)
(* left is bound to its Default coerced to the kind's type; an optional     *)
(* positional with a token is bound to the parsed token.                    *)
C5_DefaultsBound ==
    pc = "call" =>
        /\ \A k \in FlagPlaces :
               ~FlagOccurs(Sub.Params[k])
                   => FlagValueAt(FlagsUpTo(k)) = CoercedDefault(Sub.Params[k])
        /\ \A j \in 1..Len(Positional) :
               IsOptional(Positional[j])
                   => PositionalValueAt(j) =
                          IF j > Len(Rem) THEN CoercedDefault(Positional[j])
                          ELSE ParsedToken(Positional[j], Rem[j])

Min(a, b) == IF a < b THEN a ELSE b

(* C6: when binding succeeds with p positionals and r tokens remaining      *)
(* after flag parsing, the handler is handed, for the first min(p, r)       *)
(* positionals in list order, the values parsed from the first min(p, r)    *)
(* tokens, and as its tail exactly the tokens after those, in order (an     *)
(* empty tail when r <= p).                                                 *)
C6_TailIsTheRest ==
    pc = "handler" =>
        /\ recv.rest = SubSeq(Rem, Min(Len(Positional), Len(Rem)) + 1, Len(Rem))
        /\ \A j \in 1..Min(Len(Positional), Len(Rem)) :
               recv.params[Len(Schema.ptrs) + j] = ParsedToken(Positional[j], Rem[j])

(* The handler runs with a tail left after every positional took a token. *)
C6_Witness ==
    /\ pc = "handler"
    /\ Len(Positional) > 0
    /\ Len(Rem) > Len(Positional)
    /\ recv.rest # <<>>

-----------------------------------------------------------------------------
(* Run from the check of the handler's type on, as a function of its inputs *)

RunResult(e, n, view) == [err |-> e, calls |-> n, recv |-> view]

CallOutcome(n, F, vals) ==
    IF FirstBadArg(F.ft, vals) # 0
    THEN RunResult(ErrorString("type of arg is not the wanted type"), 0, NoView)
    ELSE RunResult(Wrapf(IF Len(F.ft.out) = 1 THEN F.ret ELSE Nil, "running", n), 1,
                   HandlerView(F.ft, vals))

BoundOutcome(n, F, r) ==
    IF r.err # Nil THEN RunResult(Wrap(r.err, "marshaling args"), 0, NoView)
    ELSE CallOutcome(n, F, r.argvals)

(* Run of the subcommand registered under the name n, with the tokens a. *)
RunOutcome(n, subcmd, a, h) ==
    IF checkFuncType(subcmd.F.ft, subcmd.Params) # Nil
    THEN RunResult(Wrap(checkFuncType(subcmd.F.ft, subcmd.Params), "checking function type"),
                   0, NoView)
    ELSE BoundOutcome(n, subcmd.F, parseArgs(subcmd.Params, a, subcmd.F.ft.variadic, h))

(* The same subcommand with the handler's last parameter declared the other *)
(* way: ...string for []string, []string for ...string.                     *)
Twin(subcmd) == [subcmd EXCEPT !.F.ft.variadic = ~@]

(* C7: for the same Params and args, what a call of Run returned and handed *)
(* its handler (bound values and tail strings) is what Run returns and      *)
(* hands the handler declared with the other form of last parameter.        *)
C7_VariadicSameAsSlice ==
    (pc = "done" /\ Matches) => RunResult(err, calls, recv) = RunOutcome(name, Twin(Sub), args, heap)

(* A variadic handler has run with two tail strings. *)
C7_Witness ==
    /\ pc = "done"
    /\ Matches
    /\ Sub.F.ft.variadic
    /\ calls = 1
    /\ Len(recv.rest) >= 2

(* The first positional whose binding fails. *)
FailingPlace ==
    CHOOSE j \in 1..Len(Positional) :
        /\ ParsePositionals(SubSeq(Positional, 1, j), Rem, <<>>, heap).err # Nil
        /\ ParsePositionals(SubSeq(Positional, 1, j - 1), Rem, <<>>, heap).err = Nil

(* The Default of a positional binds when no token is looked at. *)
DefaultBinds(p) ==
    parsePositionalArg([p EXCEPT !.Name = @ \o <<"?">>], <<>>, <<>>, heap).err = Nil

(* The error of the kind's own conversion of a token. *)
TokenError(p, tok) ==
    CASE p.Type = TBool -> ParseBool(tok).err
      [] p.Type = TInt -> ParseInt(tok, 32).err
      [] p.Type = TInt64 -> ParseInt(tok, 64).err
      [] p.Type = TUint -> ParseUint(tok, 32).err
      [] p.Type = TUint64 -> ParseUint(tok, 64).err
      [] p.Type = TFloat64 -> ParseFloat(tok).err
      [] p.Type = TDuration -> ParseDuration(tok).err
      [] OTHER -> Nil

(* Binding fails at a positional whose Default binds: its token is malformed. *)
MalformedToken ==
    /\ Matches
    /\ Schema.err = Nil
    /\ FlagsParsed.err = Nil
    /\ PositionalsBound.err # Nil
    /\ FailingPlace <= Len(Rem)
    /\ DefaultBinds(Positional[FailingPlace])

(* C8 as stated: binding a positional to a token malformed for its kind     *)
(* returns a ParseErr that wraps the conversion error (errors.As, Unwrap)   *)
(* and names the offending parameter.                                       *)
C8_ParseErrNamesParam ==
    (pc = "done" /\ MalformedToken) =>
        /\ ErrorsAs(err, "ParseErr")
        /\ UnwrapAs(err, "ParseErr") = TokenError(Positional[FailingPlace], Rem[FailingPlace])
        /\ \E i \in 1..Len(err) : err[i].param = Positional[FailingPlace].Name

(* C8 amended: binding a positional to a token malformed for its kind       *)
(* returns a ParseErr that wraps the conversion error (errors.As, Unwrap).  *)
C8_ParseErrWrapsConversion ==
    (pc = "done" /\ MalformedToken) =>
        /\ ErrorsAs(err, "ParseErr")
        /\ UnwrapAs(err, "ParseErr") # Nil
        /\ UnwrapAs(err, "ParseErr") = TokenError(Positional[FailingPlace], Rem[FailingPlace])

(* Run has returned the ParseErr of a malformed token. *)
C8_Witness ==
    /\ pc = "done"
    /\ MalformedToken
    /\ ErrorsAs(err, "ParseErr")
    /\ ErrorsAs(err, "NumError")

(* A decimal token: digits after an optional sign. *)
IsDecimal(tok) ==
    /\ tok # <<>>
    /\ LET digits == IF tok[1] \in {"-", "+"} THEN Tail1(tok) ELSE tok
       IN digits # <<>> /\ AllDigits(digits)

DecimalMag(tok) == NormMag(IF tok[1] \in {"-", "+"} THEN Tail1(tok) ELSE tok)

(* The value of a decimal token, as canonical text. *)
DecimalValue(tok) == Signed(tok[1] = "-", DecimalMag(tok))

(* The value lies in the signed (Int) or unsigned (Uint) 32-bit range. *)
InRange32(typ, tok) ==
    IF typ = TInt
    THEN (IF IsNeg(DecimalValue(tok)) THEN CmpMag(DecimalMag(tok), MinInt32Mag) <= 0
          ELSE CmpMag(DecimalMag(tok), MaxInt32) <= 0)
    ELSE ~IsNeg(DecimalValue(tok)) /\ CmpMag(DecimalMag(tok), MaxUint32) <= 0

(* The positionals of kind Int or Uint that binding reaches with a decimal token. *)
DecimalPlaces ==
    {j \in 1..Min(Len(Positional), Len(Rem)) :
        /\ Positional[j].Type \in {TInt, TUint}
        /\ IsDecimal(Rem[j])
        /\ ParsePositionals(SubSeq(Positional, 1, j - 1), Rem, <<>>, heap).err = Nil}

(* Every positional after the j-th binds. *)
LaterPositionalsBind(j) ==
    ParsePositionals(SubSeq(Positional, j + 1, Len(Positional)),
                     SubSeq(Rem, j + 1, Len(Rem)), <<>>, heap).err = Nil

FlagsBind == Matches /\ Schema.err = Nil /\ FlagsParsed.err = Nil

(* C9 as stated: a decimal token outside the 32-bit range of an Int (Uint)  *)
(* positional makes the binding return a parse error; every token inside    *)
(* the range binds to exactly its value.                                    *)
C9_Range32Always ==
    (pc = "done" /\ FlagsBind) =>
        \A j \in DecimalPlaces :
            IF InRange32(Positional[j].Type, Rem[j])
            THEN LaterPositionalsBind(j)
                     => /\ argvals # <<>>
                        /\ PositionalValueAt(j) =
                               Scalar(reflectType(Positional[j].Type), DecimalValue(Rem[j]))
            ELSE ErrorsAs(err, "ParseErr") /\ calls = 0

(* C9 amended: the same, a token inside the range binding to exactly its    *)
(* value when the parameter's Default coerces to the kind.                  *)
C9_Range32WhenDefaultCoerces ==
    (pc = "done" /\ FlagsBind) =>
        \A j \in DecimalPlaces :
            IF InRange32(Positional[j].Type, Rem[j])
            THEN (LaterPositionalsBind(j) /\ DefaultBinds(Positional[j]))
                     => /\ argvals # <<>>
                        /\ PositionalValueAt(j) =
                               Scalar(reflectType(Positional[j].Type), DecimalValue(Rem[j]))
            ELSE ErrorsAs(err, "ParseErr") /\ calls = 0

(* Run has refused a token outside the range of an Int positional whose Default coerces. *)
C9_Witness ==
    /\ pc = "done"
    /\ FlagsBind
    /\ \E j \in DecimalPlaces :
           /\ Positional[j].Type = TInt
           /\ DefaultBinds(Positional[j])
           /\ ~InRange32(TInt, Rem[j])
           /\ ErrorsIs(err, "ErrRange")

(* C10 as stated: whatever calls of Run have been made, the Default object  *)
(* of a Value parameter renders the String() it rendered before the first.  *)
C10_DefaultUnchanged == ValueString(heap, dflt) = ValueString(InitHeap, dflt)

-----------------------------------------------------------------------------
(* Value parameters declared with one Default object *)

(* The positionals of kind Value that took a token, in pairs declared with  *)
(* the same Default and bound to different tokens.                          *)
SharedValuePairs ==
    {pr \in (1..Min(Len(Positional), Len(Rem))) \X (1..Min(Len(Positional), Len(Rem))) :
        /\ pr[1] < pr[2]
        /\ Positional[pr[1]].Type = TValue
        /\ Positional[pr[2]].Type = TValue
        /\ Positional[pr[1]].Default = Positional[pr[2]].Default
        /\ Rem[pr[1]] # Rem[pr[2]]}

(* The object the handler is handed for the j-th positional. *)
ReceivedObject(j) == TextOf(recv.params[Len(Schema.ptrs) + j])

(* C11 as stated: when two Value parameters declared with the same Default  *)
(* object are bound to different tokens t1 and t2 in one invocation, the    *)
(* handler receives two distinct objects, the first holding t1 and the      *)
(* second holding t2.                                                       *)
C11_DistinctValueObjects ==
    pc = "handler" =>
        \A pr \in SharedValuePairs :
            /\ ReceivedObject(pr[1]) # ReceivedObject(pr[2])
            /\ ValueString(heap, ReceivedObject(pr[1])) = Rem[pr[1]]
            /\ ValueString(heap, ReceivedObject(pr[2])) = Rem[pr[2]]

-----------------------------------------------------------------------------
(* Check *)

(* The type of an F that is no function, and of a nil F. *)
NotAFunc(t) == [kind |-> t]

NilType == NotAFunc("nil")

(* What a direct call comes to: a panic, or the error it returns. *)
Returns(e) == [panic |-> FALSE, err |-> e]

Panics == [panic |-> TRUE, err |-> Nil]

(* ParamDefaultErr{Param}. *)
ParamDefaultErr(param) ==
    <<[kind |-> "ParamDefaultErr", msg |-> "default value is not of the type", tok |-> NoText,
       param |-> param.Name, Param |-> param]>>

(* reflect.TypeOf(nil) is nil, and a method called on it panics. *)
checkParamPanics(param) == param.Default.t = "nil"

(* A check that looks into a Value Default: it takes the Default only while *)
(* the object holds what it was made with.                                  *)
checkParamOfContents(param) ==
    IF param.Type = TValue /\ param.Default.t = valuetestvalue
       /\ heap[TextOf(param.Default)] # InitHeap[TextOf(param.Default)]
    THEN ParamDefaultErr(param)
    ELSE Nil

checkParam(param) ==
    IF ~AssignableTo(param.Default.t, reflectTypeOfKind(param.Type)) THEN ParamDefaultErr(param)
    ELSE Nil

RECURSIVE CheckParamsFrom(_, _)
(* The loop of Check over the Params, from the i-th on. *)
CheckParamsFrom(params, i) ==
    IF i > Len(params) THEN Returns(Nil)
    ELSE IF checkParamPanics(params[i]) THEN Panics
    ELSE IF checkParam(params[i]) # Nil
    THEN Returns(Wrapf(checkParam(params[i]), "checking parameter", <<DigitChars[i + 1]>>))
    ELSE CheckParamsFrom(params, i + 1)

(* Check: reflect.ValueOf(nil).Type() panics, and so does reflectType on an *)
(* unknown Type.                                                            *)
Check(subcmd) ==
    IF subcmd.F.ft = NilType \/ checkFuncTypePanics(subcmd.Params) THEN Panics
    ELSE IF checkFuncType(subcmd.F.ft, subcmd.Params) # Nil
    THEN Returns(checkFuncType(subcmd.F.ft, subcmd.Params))
    ELSE CheckParamsFrom(subcmd.Params, 1)

(* The entries of the Map on which Check does not return nil. *)
Faulty(m) == {n \in m : Check(Subcmds(n)) # Returns(Nil)}

(* CheckMap: Check on each entry of the Map, in the order the map yields    *)
(* them, which is any order: what it may come to is nil when Check takes    *)
(* every entry, and otherwise the error or the panic of any entry that      *)
(* Check does not take.                                                     *)
CheckMap(m) ==
    IF Faulty(m) = {} THEN {Returns(Nil)}
    ELSE {IF Check(Subcmds(n)).panic THEN Panics
          ELSE Returns(Wrapf(Check(Subcmds(n)).err, "checking subcommand", n)) : n \in Faulty(m)}

-----------------------------------------------------------------------------
(* Check, ToFlagSet and the coercions, called directly *)

(* The Defaults tried: one of every type the coercions tell apart. *)
DefaultSamples ==
    {IntOf(<<"1">>), IntOf(<<"-", "1">>), Scalar("int32", <<"7">>), Scalar("int64", <<"0">>),
     Scalar("uint", <<"0">>), Scalar("uint32", <<"7">>), Scalar("uint64", <<"0">>),
     Scalar("float32", <<"0">>), Scalar("float64", <<"0">>), Scalar("time.Duration", <<"0">>),
     BoolOf(FALSE), Scalar("string", <<"s">>), Scalar(valuetestvalue, dflt)}

(* A subcommand with one flag of kind k and Default d, and the handler the *)
(* kind calls for.                                                         *)
KindProbe(k, d) ==
    Subcmd(Func(<<ctxType, reflectTypeOfKind(k), strSliceType>>, <<errType>>, FALSE, Nil),
           <<Param(<<"-", "p">>, k, d)>>)

KindProbes == {KindProbe(k, d) : k \in KnownTypes, d \in DefaultSamples}

(* Sequences over S of length up to n. *)
UpTo(S, n) == UNION {[1..k -> S] : k \in 0..n}

MaxMiddle == 2

(* Parameter lists of Bool and Int parameters, each with a Default of its type. *)
ShapeParam(k) == Param(<<"p">>, k, IF k = TBool THEN BoolOf(FALSE) ELSE IntOf(<<"0">>))

ShapeParams == {[i \in 1..Len(ks) |-> ShapeParam(ks[i])] : ks \in UpTo({TBool, TInt}, MaxMiddle)}

(* Function types F may have: the first parameter a Context or an interface{}, *)
(* up to MaxMiddle parameters after it, a last parameter []string, ...string  *)
(* or []int, and no result, an error, a concrete error type or two results.   *)
ShapeFirsts == {ctxType, emptyInterface}

ShapeMiddles == UpTo({"bool", "int", emptyInterface}, MaxMiddle)

ShapeLasts == {<<strSliceType, FALSE>>, <<strSliceType, TRUE>>, <<"[]int", FALSE>>}

ShapeOuts == {<<>>, <<errType>>, <<"*errors.errorString">>, <<errType, errType>>}

ShapeFuncs ==
    {Func(<<f>> \o mid \o <<l[1]>>, out, l[2], Nil) :
         f \in ShapeFirsts, mid \in ShapeMiddles, l \in ShapeLasts, out \in ShapeOuts}

(* An F that is an int, and a nil F. *)
NonFuncs == {[ft |-> NotAFunc("int"), ret |-> Nil], [ft |-> NilType, ret |-> Nil]}

ShapeProbes == {Subcmd(F, ps) : F \in ShapeFuncs \cup NonFuncs, ps \in ShapeParams}

(* Subcommands with a fault in their declaration: a Type outside the        *)
(* declared constants, a nil Default.                                       *)
FaultProbes ==
    {Subcmd(Func(<<ctxType, "int", strSliceType>>, <<errType>>, FALSE, Nil), <<p>>) :
         p \in {Param(<<"-", "p">>, TUnknown, IntOf(<<"0">>)), Param(<<"-", "p">>, TInt, NilValue),
                Param(<<"p">>, TInt, NilValue)}}

CheckInputs == KindProbes \cup ShapeProbes \cup FaultProbes

(* The values every coercion is tried on: small ones of every type, the    *)
(* ends of the narrow integer types, and integers around 2^53.             *)
CoerceSamples ==
    {IntOf(<<"4", "2">>), IntOf(<<"-", "1">>),
     IntOf(<<"-", "9", "0", "0", "7", "1", "9", "9", "2", "5", "4", "7", "4", "0", "9", "9", "3">>),
     Scalar("int8", <<"-", "1", "2", "8">>), Scalar("int16", <<"3", "0", "0">>),
     Scalar("int32", <<"-", "2", "1", "4", "7", "4", "8", "3", "6", "4", "8">>),
     Scalar("int64", <<"-", "1">>),
     Scalar("int64", <<"9", "0", "0", "7", "1", "9", "9", "2", "5", "4", "7", "4", "0", "9", "9", "2">>),
     Scalar("int64", <<"9", "0", "0", "7", "1", "9", "9", "2", "5", "4", "7", "4", "0", "9", "9", "3">>),
     Scalar("uint", <<"0">>),
     Scalar("uint8", <<"2", "5", "5">>), Scalar("uint16", <<"6", "5", "5", "3", "5">>),
     Scalar("uint32", <<"4", "2", "9", "4", "9", "6", "7", "2", "9", "5">>),
     Scalar("uint64", <<"7">>),
     Scalar("uint64", <<"9", "0", "0", "7", "1", "9", "9", "2", "5", "4", "7", "4", "0", "9", "9", "5">>),
     Scalar("float32", <<"1", ".", "5">>), Scalar("float64", <<"2", ".", "5">>),
     Scalar("time.Duration", <<"1", "0", "0", "0">>), Scalar("string", <<"4", "2">>),
     BoolOf(TRUE)}

(* The ends of the 64-bit types, tried on the coercions to integers. *)
WideSamples ==
    {IntOf(<<"9", "2", "2", "3", "3", "7", "2", "0", "3", "6", "8", "5", "4", "7", "7", "5", "8", "0", "7">>),
     Scalar("int64", <<"-", "9", "2", "2", "3", "3", "7", "2", "0", "3", "6", "8", "5", "4", "7", "7", "5", "8", "0", "8">>),
     Scalar("uint", <<"1", "8", "4", "4", "6", "7", "4", "4", "0", "7", "3", "7", "0", "9", "5", "5", "1", "6", "1", "5">>),
     Scalar("uint64", <<"1", "8", "4", "4", "6", "7", "4", "4", "0", "7", "3", "7", "0", "9", "5", "5", "1", "6", "1", "5">>)}

CoercionNames == {"asInt", "asInt64", "asUint", "asUint64", "asFloat64", "asDuration"}

CoerceInputs ==
    (CoercionNames \X CoerceSamples) \cup ((CoercionNames \ {"asFloat64"}) \X WideSamples)

Coerce(h, val) ==
    CASE h = "asInt" -> asInt(val)
      [] h = "asInt64" -> asInt64(val)
      [] h = "asUint" -> asUint(val)
      [] h = "asUint64" -> asUint64(val)
      [] h = "asFloat64" -> asFloat64(val)
      [] h = "asDuration" -> asDuration(val)

CallCoerce(h, val) ==
    /\ probe.op = "none"
    /\ probe' = [op |-> h, in |-> val, out |-> Coerce(h, val)]
    /\ UNCHANGED runVars

MaxParams == 3

(* The parameters the lists given to ToFlagSet are made of: flags, a        *)
(* required and an optional positional, and a flag whose Default does not   *)
(* coerce.                                                                  *)
ParamPool ==
    {FlagF, Param(<<"-", "g">>, TInt, IntOf(<<"0">>)), Req, Opt,
     Param(<<"-", "s">>, TInt, StringOf(<<"x">>))}

(* Lists of up to MaxParams different parameters. *)
ParamLists ==
    {ps \in UpTo(ParamPool, MaxParams) : \A i, j \in 1..Len(ps) : i # j => ps[i] # ps[j]}

(* Lists of one flag, of every kind (one of them unknown) with every Default *)
(* (one of them nil).                                                       *)
KindLists ==
    {<<Param(<<"-", "p">>, k, d)>> :
         k \in KnownTypes \cup {TValue, TUnknown}, d \in DefaultSamples \cup {NilValue}}

CallToFlagSet(ps) ==
    /\ probe.op = "none"
    /\ probe' = [op |-> "ToFlagSet", in |-> ps, out |-> ToFlagSet(ps)]
    /\ UNCHANGED runVars

CallCheck(s) ==
    /\ probe.op = "none"
    /\ probe' = [op |-> "Check", in |-> s, out |-> Check(s)]
    /\ UNCHANGED runVars

(* The tokens parseArgs is called with directly: a number, a flag, a word. *)
BindTokens == {<<"4", "2">>, <<"-", "f">>, <<"a", ",", "b">>}

BindTokenLists == UpTo(BindTokens, MaxArgs)

CallParseArgs(ps, toks, variadic) ==
    /\ probe.op = "none"
    /\ probe' = [op |-> "parseArgs", in |-> [params |-> ps, args |-> toks, variadic |-> variadic],
                 out |-> parseArgs(ps, toks, variadic, heap)]
    /\ UNCHANGED runVars

(* Required positional parameters of every kind with every Default (one of *)
(* them nil), and the tokens they are bound to: a number, a bool, a         *)
(* duration, a list.                                                        *)
PositionalParams ==
    {Param(<<"p">>, k, d) : k \in KnownTypes \cup {TValue}, d \in DefaultSamples \cup {NilValue}}

PositionalTokens == {<<"4", "2">>, TrueText, <<"7", "s">>, <<"a", ",", "b">>}

CallParsePositionalArg(p, tok) ==
    /\ probe.op = "none"
    /\ probe' = [op |-> "parsePositionalArg", in |-> [p |-> p, args |-> <<tok>>],
                 out |-> parsePositionalArg(p, <<tok>>, <<>>, heap)]
    /\ UNCHANGED runVars

(* The names of the subcommands recorded along a chain of contexts. *)
PairNames == {<<"a">>, <<"v">>, <<"e">>}

(* The most calls of Run nested in one another. *)
MaxChain == 3

RECURSIVE Chain(_, _)
(* The context and the lists after addSubcmdPair along a chain of contexts, *)
(* each made from the one before: Run called in the handler of Run.         *)
Chain(r, ns) ==
    IF ns = <<>> THEN r
    ELSE Chain(addSubcmdPair(r.ctx, r.heap, ns[1]), Tail1(ns))

(* From context.Background(): addSubcmdPair with the names ns, one after    *)
(* the other, then subcmdPairList of the last context.                      *)
CallPairs(ns) ==
    /\ probe.op = "none"
    /\ LET r == Chain([ctx |-> Background, heap |-> heap], ns)
       IN probe' = [op |-> "pairs", in |-> ns, out |-> subcmdPairList(r.ctx, r.heap)]
    /\ UNCHANGED runVars

(* Two calls of Run from the same parent context, the context after the     *)
(* chain ns: the first records a, the second b; then each one's context is  *)
(* asked for its list.                                                      *)
CallSiblings(ns, a, b) ==
    /\ probe.op = "none"
    /\ LET parent == Chain([ctx |-> Background, heap |-> heap], ns)
           first == addSubcmdPair(parent.ctx, parent.heap, a)
           second == addSubcmdPair(parent.ctx, first.heap, b)
       IN probe' = [op |-> "siblings", in |-> <<ns, a, b>>,
                    out |-> [first |-> subcmdPairList(first.ctx, second.heap),
                             second |-> subcmdPairList(second.ctx, second.heap)]]
    /\ UNCHANGED runVars

RECURSIVE WithSuppressChecks(_, _)
(* WithSuppressCheck applied along a chain of contexts, one value after the other. *)
WithSuppressChecks(c, bs) ==
    IF bs = <<>> THEN c
    ELSE WithSuppressChecks(WithSuppressCheck(c, bs[1]), Tail1(bs))

(* From context.Background(): WithSuppressCheck with each of the values bs, *)
(* then SuppressCheck of the last context.                                  *)
CallSuppressCheck(bs) ==
    /\ probe.op = "none"
    /\ probe' = [op |-> "SuppressCheck", in |-> bs,
                 out |-> SuppressCheck(WithSuppressChecks(Background, bs))]
    /\ UNCHANGED runVars

(* The caller has taken the result. *)
ProbeReturn ==
    /\ probe.op # "none"
    /\ probe' = NoProbe
    /\ UNCHANGED runVars

(* A direct call is made when no result is waiting to be taken. *)
PureNext ==
    \/ probe.op = "none" /\ \E s \in CheckInputs : CallCheck(s)
    \/ probe.op = "none" /\ \E ps \in ParamLists \cup KindLists : CallToFlagSet(ps)
    \/ probe.op = "none" /\ \E c \in CoerceInputs : CallCoerce(c[1], c[2])
    \/ probe.op = "none" /\ \E ps \in ParamLists, toks \in BindTokenLists, variadic \in BOOLEAN :
                                CallParseArgs(ps, toks, variadic)
    \/ probe.op = "none" /\ \E p \in PositionalParams, tok \in PositionalTokens :
                                CallParsePositionalArg(p, tok)
    \/ probe.op = "none" /\ \E ns \in UpTo(PairNames, MaxChain) : CallPairs(ns)
    \/ probe.op = "none" /\ \E bs \in UpTo(BOOLEAN, MaxChain) : CallSuppressCheck(bs)
    \/ probe.op = "none" /\ \E ns \in UpTo(PairNames, 1), a, b \in PairNames : CallSiblings(ns, a, b)
    \/ ProbeReturn

PureSpec == Init /\ [][PureNext]_vars

-----------------------------------------------------------------------------
(* Check and the binder on a Default *)

(* The binder takes the Default d for a parameter of kind k: the type      *)
(* assertion or the coercion ToFlagSet makes for the kind succeeds (for   *)
(* Bool, whose assertion ToFlagSet does not test, the assertion itself).   *)
Coercible(k, d) ==
    IF k = TBool THEN d.t = "bool" ELSE DefineFlag(Param(<<"-", "p">>, k, d)).err = Nil

IsFunc(ft) == DOMAIN ft = {"in", "out", "variadic"}

(* F is func(context.Context, T1, ..., Tn, []string) or the same with       *)
(* ...string, Tk the type of the k-th Param's kind, with no result or the   *)
(* one result error.                                                        *)
ExactSignature(ft, params) ==
    /\ IsFunc(ft)
    /\ Len(ft.in) = Len(params) + 2
    /\ ft.in[1] = ctxType
    /\ ft.in[Len(ft.in)] = strSliceType
    /\ \A k \in 1..Len(params) : ft.in[k + 1] = reflectTypeOfKind(params[k].Type)
    /\ ft.out \in {<<>>, <<errType>>}

(* Check has returned for one parameter with a Default and a handler of the *)
(* type the parameter calls for.                                            *)
CheckedDefault ==
    /\ probe.op = "Check"
    /\ Len(probe.in.Params) = 1
    /\ probe.in.Params[1].Default # NilValue
    /\ ExactSignature(probe.in.F.ft, probe.in.Params)

(* C12: Check accepts the Default of a parameter exactly when the binder's *)
(* coercion for the parameter's kind accepts it, and otherwise returns a   *)
(* ParamDefaultErr that identifies the parameter.                          *)
C12_CheckAcceptsCoercibleDefaults ==
    CheckedDefault =>
        LET p == probe.in.Params[1]
        IN /\ ~probe.out.panic
           /\ (probe.out.err = Nil) <=> Coercible(p.Type, p.Default)
           /\ probe.out.err # Nil =>
                  /\ ErrorsAs(probe.out.err, "ParamDefaultErr")
                  /\ probe.out.err[Len(probe.out.err)].Param = p

-----------------------------------------------------------------------------
(* Check on the number of the handler's parameters *)

(* Check has returned for an F that is a function with a leading Context and *)
(* a trailing []string or ...string, and Params of declared kinds with       *)
(* Defaults that are not nil.                                                *)
CheckedHandler ==
    /\ probe.op = "Check"
    /\ IsFunc(probe.in.F.ft)
    /\ probe.in.F.ft.in[1] = ctxType
    /\ probe.in.F.ft.in[Len(probe.in.F.ft.in)] = strSliceType
    /\ \A k \in 1..Len(probe.in.Params) :
           /\ probe.in.Params[k].Type \in KnownTypes \cup {TValue}
           /\ probe.in.Params[k].Default # NilValue

(* The number of the handler's parameters between the Context and the rest. *)
NumMiddle == Len(probe.in.F.ft.in) - 2

(* The k-th middle parameter of the handler has the type of the k-th Param. *)
TypesMatch ==
    \A k \in 1..Len(probe.in.Params) :
        /\ k <= NumMiddle
        /\ probe.in.F.ft.in[k + 1] = reflectTypeOfKind(probe.in.Params[k].Type)

(* C13: for a handler with N parameters between the Context and the rest,   *)
(* Check returns nil only when len(Params) = N and the types match; with    *)
(* len(Params) = N - 1 or N + 1 it returns a FuncTypeErr whose Got has the   *)
(* handler's N + 2 parameters and whose Want has the len(Params) + 2 ones    *)
(* the Params call for.                                                      *)
C13_ArityMismatchReported ==
    CheckedHandler =>
        /\ ~probe.out.panic
        /\ probe.out.err = Nil => (Len(probe.in.Params) = NumMiddle /\ TypesMatch)
        /\ Len(probe.in.Params) \in {NumMiddle - 1, NumMiddle + 1} =>
               /\ probe.out.err # Nil
               /\ probe.out.err[1].kind = "FuncTypeErr"
               /\ Len(probe.out.err[1].Got.in) = NumMiddle + 2
               /\ Len(probe.out.err[1].Want.in) = Len(probe.in.Params) + 2

(* Check has rejected a handler that has one parameter more than the Params. *)
C13_Witness ==
    /\ CheckedHandler
    /\ Len(probe.in.Params) = 1
    /\ NumMiddle = 2
    /\ probe.out.err # Nil
    /\ probe.out.err[1].kind = "FuncTypeErr"
    /\ Len(probe.out.err[1].Want.in) = 3

-----------------------------------------------------------------------------
(* Check on the type of F *)

(* F is a function whose first parameter takes a Context, whose last is      *)
(* []string or ...string, whose k-th middle parameter takes the type of the *)
(* k-th Param's kind, with no result or one result that implements error.   *)
AssignableSignature(ft, params) ==
    /\ IsFunc(ft)
    /\ Len(ft.in) = Len(params) + 2
    /\ AssignableTo(ctxType, ft.in[1])
    /\ ft.in[Len(ft.in)] = strSliceType
    /\ \A k \in 1..Len(params) : AssignableTo(reflectTypeOfKind(params[k].Type), ft.in[k + 1])
    /\ Len(ft.out) <= 1
    /\ \A i \in 1..Len(ft.out) : AssignableTo(ft.out[i], errType)

(* Check has returned or panicked for an F that is not nil and Params whose *)
(* Defaults are of their kinds' types.                                      *)
CheckedF ==
    /\ probe.op = "Check"
    /\ probe.in.F.ft # NilType
    /\ \A k \in 1..Len(probe.in.Params) :
           AssignableTo(probe.in.Params[k].Default.t, reflectTypeOfKind(probe.in.Params[k].Type))

(* C14 as stated: Check accepts F exactly when F is a function whose first  *)
(* parameter accepts a Context, whose last is []string or ...string, whose  *)
(* middle parameters are assignable from the types of the Params, and which *)
(* returns nothing or one value implementing error.                         *)
C14_AcceptsAssignable ==
    CheckedF => (probe.out.err = Nil <=> AssignableSignature(probe.in.F.ft, probe.in.Params))

(* C14: Check accepts a non-nil F exactly when its type is one of the four  *)
(* function types the Params imply, and rejects every other non-nil F with  *)
(* an error.                                                                *)
C14_AcceptsExactType ==
    CheckedF =>
        /\ ~probe.out.panic
        /\ probe.out.err = Nil <=> ExactSignature(probe.in.F.ft, probe.in.Params)
        /\ probe.out.err # Nil => probe.out.err[1].kind = "FuncTypeErr"

(* Check has rejected a handler that takes a Context, every Param's type and *)
(* the rest and returns an error, but some of them as an interface{}.        *)
C14_Witness ==
    /\ CheckedF
    /\ AssignableSignature(probe.in.F.ft, probe.in.Params)
    /\ ~ExactSignature(probe.in.F.ft, probe.in.Params)
    /\ probe.in.F.ft.in[1] = ctxType
    /\ probe.in.F.ft.out = <<errType>>
    /\ probe.out.err # Nil

-----------------------------------------------------------------------------
(* Run without a subcommand to run *)

(* Run has returned without finding a subcommand: args was empty, or its    *)
(* first element is no key of c.Subcmds().                                  *)
NoSubcmdFound == pc = "done" /\ name \notin SubcmdNames

(* C15: Run with empty args returns a MissingSubcmdErr; Run with an args[0] *)
(* that is no subcommand returns a HelpRequestedErr when args[0] is "help", *)
(* recording args[1] if there is one, and otherwise an UnknownSubcmdErr     *)
(* carrying args[0]; in all three cases no handler is called.               *)
C15_DispatchErrors ==
    NoSubcmdFound =>
        /\ calls = 0
        /\ ~active
        /\ Len(err) = 1
        /\ name = <<>> => err[1].kind = "MissingSubcmdErr"
        /\ name = HelpName =>
               /\ err[1].kind = "HelpRequestedErr"
               /\ err[1].tok = IF args # <<>> THEN args[1] ELSE NoText
        /\ name \notin {<<>>, HelpName} =>
               /\ err[1].kind = "UnknownSubcmdErr"
               /\ err[1].tok = name

(* Run has returned for "help" followed by the name of a subcommand. *)
C15_Witness ==
    /\ NoSubcmdFound
    /\ name = HelpName
    /\ args # <<>>
    /\ err[1].kind = "HelpRequestedErr"
    /\ err[1].tok = args[1]

-----------------------------------------------------------------------------
(* The error of the handler *)

(* Run has returned after calling the handler. *)
RanHandler == pc = "done" /\ calls = 1

(* The handler has an error result and its body returns a non-nil error. *)
HandlerFails == Len(Sub.F.ft.out) = 1 /\ Sub.F.ret # Nil

(* C16: after successful binding, if the handler returns a non-nil error e  *)
(* Run returns an error that wraps e, with the added context "running" and  *)
(* the subcommand's name; if the handler returns nil or has no result, Run  *)
(* returns nil.                                                             *)
C16_HandlerErrorWrapped ==
    RanHandler =>
        IF HandlerFails
        THEN /\ Len(err) = Len(Sub.F.ret) + 1
             /\ err[1] = Layer("withMessage", "running", name, NoText)
             /\ SubSeq(err, 2, Len(err)) = Sub.F.ret
        ELSE err = Nil

(* Run has returned the wrapped error of a handler that failed. *)
C16_Witness ==
    /\ RanHandler
    /\ HandlerFails
    /\ err # Nil
    /\ err[1].tok = name
    /\ ErrorsIs(err, Sub.F.ret[1].kind)

-----------------------------------------------------------------------------
(* The signature check comes before the binding *)

(* Run has found a subcommand whose handler does not have the type its      *)
(* Params imply.                                                            *)
SignatureMismatch ==
    /\ name \in SubcmdNames
    /\ ~checkFuncTypePanics(Sub.Params)
    /\ ~ExactSignature(Sub.F.ft, Sub.Params)

-----------------------------------------------------------------------------
(* The FlagSet in the handler's context *)

HasFlagParam(params) == \E i \in 1..Len(params) : IsFlagParam(params[i])

(* C20: the context the handler is called with carries a FlagSet exactly    *)
(* when the subcommand declares a flag parameter, and FlagSet on a context  *)
(* without one returns nil.                                                 *)
C20_FlagSetIffFlags ==
    /\ FlagSet(Background) = NilFlagSet
    /\ pc = "handler" => (~FlagSet(ctx).nil <=> HasFlagParam(Sub.Params))

-----------------------------------------------------------------------------
(* The coercions *)

SignedTypes == {"int", "int8", "int16", "int32", "int64"}

UnsignedTypes == {"uint", "uint8", "uint16", "uint32", "uint64"}

(* A coercion has returned. *)
Coerced == probe.op \in CoercionNames

CoercedInt == Coerced /\ probe.in.t \in SignedTypes \cup UnsignedTypes

(* The distance between two integers of one sign. *)
Distance(a, b) ==
    IF CmpMag(Magnitude(a), Magnitude(b)) >= 0 THEN SubMag(Magnitude(a), Magnitude(b))
    ELSE SubMag(Magnitude(b), Magnitude(a))

(* asFloat64 has returned for an integer of magnitude above 2^53. *)
RoundedCase ==
    /\ CoercedInt
    /\ probe.op = "asFloat64"
    /\ CmpMag(Magnitude(TextOf(probe.in)), Two53) > 0

(* The input is negative and of a signed integer type. *)
NegativeInput == Coerced /\ probe.in.t \in SignedTypes /\ IsNeg(TextOf(probe.in))

(* What C17 says of asUint, asUint64 and asDuration. *)
UnsignedAndDurationRules ==
    /\ (probe.op \in {"asUint", "asUint64"} /\ NegativeInput) => probe.out.err # Nil
    /\ (probe.op = "asUint" /\ probe.in.t \in {"int", "int8", "int16", "int32"} /\ ~NegativeInput) =>
           probe.out = Parsed(TextOf(probe.in))
    /\ (probe.op = "asUint64" /\ probe.in.t \in SignedTypes /\ ~NegativeInput) =>
           probe.out = Parsed(TextOf(probe.in))
    /\ probe.op = "asDuration" =>
           (probe.out.err = Nil <=> (probe.in.t = "time.Duration" \/ asInt64(probe.in).err = Nil))
    /\ probe.out.err # Nil => probe.out.val = NoText

(* C17 as stated: every coercion returns the numerically equal value with a *)
(* nil error or a non-nil error; asUint and asUint64 fail on every negative *)
(* signed input and return the equal value for every non-negative accepted *)
(* one; asDuration succeeds exactly when the input is a Duration or asInt64 *)
(* succeeds.                                                                *)
C17_EqualOrError ==
    Coerced =>
        /\ probe.out.err = Nil => probe.out.val = TextOf(probe.in)
        /\ UnsignedAndDurationRules

(* C17: as stated, except that asFloat64 of an integer of magnitude above   *)
(* 2^53 returns, with a nil error, a value of the same sign within 1024 of  *)
(* the input (a float64 next to it) instead of the equal value.             *)
C17_EqualOrErrorUpToRounding ==
    Coerced =>
        /\ (probe.out.err = Nil /\ ~RoundedCase) => probe.out.val = TextOf(probe.in)
        /\ RoundedCase =>
               /\ probe.out.err = Nil
               /\ IsNeg(probe.out.val) = IsNeg(TextOf(probe.in))
               /\ CmpMag(Distance(probe.out.val, TextOf(probe.in)), <<"1", "0", "2", "4">>) <= 0
        /\ UnsignedAndDurationRules

(* asFloat64 has returned another value than the int64 it was given. *)
C17_Witness ==
    /\ RoundedCase
    /\ probe.in.t = "int64"
    /\ probe.out.err = Nil
    /\ probe.out.val # TextOf(probe.in)

-----------------------------------------------------------------------------
(* ToFlagSet *)

(* ToFlagSet has returned without an error. *)
FlagSetMade == probe.op = "ToFlagSet" /\ probe.out.err = Nil

NamedAsFlag(p) == p.Name # <<>> /\ p.Name[1] = "-"

NotNamedAsFlag(p) == ~NamedAsFlag(p)

(* The length of the longest prefix of ps all of whose names start with "-". *)
LeadingFlags(ps) ==
    IF \A i \in 1..Len(ps) : NamedAsFlag(ps[i]) THEN Len(ps)
    ELSE (CHOOSE i \in 1..Len(ps) :
              ~NamedAsFlag(ps[i]) /\ \A j \in 1..(i - 1) : NamedAsFlag(ps[j])) - 1

(* The flags of the schema are those the parameters ps define, in order. *)
SchemaOf(ps) ==
    /\ Len(probe.out.fs) = Len(ps)
    /\ Len(probe.out.ptrs) = Len(ps)
    /\ \A i \in 1..Len(ps) :
           /\ probe.out.fs[i].name = Tail1(ps[i].Name)
           /\ probe.out.fs[i].typ = ps[i].Type

(* C18 as stated: the flag schema holds exactly the maximal leading run of  *)
(* parameters whose names start with "-", and every parameter from the     *)
(* first other one onward is returned as positional, in declared order.    *)
C18_LeadingRunOnly ==
    FlagSetMade =>
        /\ SchemaOf(SubSeq(probe.in, 1, LeadingFlags(probe.in)))
        /\ probe.out.positional = SubSeq(probe.in, LeadingFlags(probe.in) + 1, Len(probe.in))

(* C18: the flag schema holds exactly the parameters whose names start with *)
(* "-", wherever they stand, and every other parameter is returned as       *)
(* positional, both in declared order.                                      *)
C18_EveryDashParam ==
    FlagSetMade =>
        /\ SchemaOf(SelectSeq(probe.in, NamedAsFlag))
        /\ probe.out.positional = SelectSeq(probe.in, NotNamedAsFlag)

(* ToFlagSet has made a flag of a parameter that stands after a positional. *)
C18_Witness ==
    /\ FlagSetMade
    /\ Len(probe.in) >= 2
    /\ ~NamedAsFlag(probe.in[1])
    /\ NamedAsFlag(probe.in[2])
    /\ Len(probe.out.fs) >= 1
    /\ probe.out.fs[1].name = Tail1(probe.in[2].Name)

-----------------------------------------------------------------------------
(* Check called between the steps of Run *)

(* The subcommands of the command Check is called on: two with Value        *)
(* parameters, one that Check takes, one it rejects, one it panics on.      *)
CheckedNames == {<<"v">>, <<"w">>, <<"a">>, <<"m">>, <<"u">>}

(* The calls of Run made while Check is called: of the subcommands with     *)
(* Value parameters and of one without parameters.                          *)
CheckRunLists == {<<n>> \o l : n \in {<<"v">>, <<"w">>, <<"e">>}, l \in TokenLists}

CheckNext ==
    \/ pc = "idle" /\ \E a \in CheckRunLists : RunDispatch(a)
    \/ RunCheck
    \/ RunParse
    \/ RunCall
    \/ HandlerReturn
    \/ RunReturn
    \/ Returned
    \/ probe.op = "none" /\ \E n \in CheckedNames : CallCheck(Subcmds(n))
    \/ ProbeReturn

CheckSpec == Init /\ [][CheckNext]_vars

-----------------------------------------------------------------------------
(* C22 *)

(* The token the j-th positional is bound to, when one is left for it. *)
TokenFor(j) == IF j <= Len(Rem) THEN <<Rem[j]>> ELSE <<>>

(* The j-th positional, taken by itself with its token, binds without error. *)
BindsAlone(j) == parsePositionalArg(Positional[j], TokenFor(j), <<>>, heap).err = Nil

(* A required positional is reached with no token left, and no positional   *)
(* before it has failed.                                                    *)
StarvedFirst ==
    /\ TooFewTokens
    /\ \A j \in 1..(FirstStarved - 1) : BindsAlone(j)

(* Run has come to the loop over the positional parameters and returned. *)
ScannedPositionals ==
    /\ pc = "done"
    /\ Matches
    /\ Schema.err = Nil
    /\ FlagsParsed.err = Nil

-----------------------------------------------------------------------------
(* C23 *)

(* The subcommand Run was called on declares a required positional after an *)
(* optional one, its handler has the type of its Params, and the flags of   *)
(* the command line parse.                                                  *)
OptionalBeforeRequired ==
    /\ Matches
    /\ Schema.err = Nil
    /\ FlagsParsed.err = Nil
    /\ RequiredAfterOptional(Positional)

(* Every positional, in list order, has a token or a Default it binds to. *)
AllBindInOrder == \A j \in 1..Len(Positional) : BindsAlone(j)

(* C23 as stated: a parameter list in which a required positional is        *)
(* declared after an optional one is rejected with an error, by Check or by *)
(* Run before any token is bound, for every token list.                     *)
C23_Rejected ==
    (pc = "done" /\ OptionalBeforeRequired)
        => (err # Nil /\ calls = 0 /\ PositionalsBound.argvals = <<>>)

(* C23 amended: such a list is not rejected: Check returns nil for it, and  *)
(* Run binds the positionals in list order, each to the next token, calls   *)
(* the handler with the parsed tokens when every positional has one, and    *)
(* returns ErrTooFewArgs when the required one is reached with none left.   *)
C23_BoundInListOrder ==
    OptionalBeforeRequired =>
        /\ Check(Sub) = Returns(Nil)
        /\ pc = "call" =>
               \A j \in 1..Len(Positional) :
                   j <= Len(Rem) /\ PositionalValueAt(j) = ParsedToken(Positional[j], Rem[j])
        /\ pc = "done" =>
               /\ AllBindInOrder <=> calls = 1
               /\ StarvedFirst <=> ErrorsIs(err, "ErrTooFewArgs")

(* Run has called the handler of a subcommand whose required positional     *)
(* follows an optional one, each bound to its token.                        *)
C23_Witness ==
    /\ pc = "done"
    /\ OptionalBeforeRequired
    /\ AllBindInOrder
    /\ Len(Rem) = 2
    /\ calls = 1
    /\ err = Nil

-----------------------------------------------------------------------------
(* C24 *)

(* The declaration of a subcommand has a fault: F is nil or not a function, *)
(* a Param's Type is none of the declared kinds, or a Param's Default is    *)
(* nil.                                                                     *)
ConfigFault(subcmd) ==
    \/ ~IsFunc(subcmd.F.ft)
    \/ \E k \in 1..Len(subcmd.Params) :
           \/ subcmd.Params[k].Type \notin KnownTypes \cup {TValue}
           \/ subcmd.Params[k].Default = NilValue

(* C24: Check reports a fault of the declaration (F nil or not a function,  *)
(* a Type outside the declared kinds, a nil Default) as a returned error    *)
(* and does not panic.                                                      *)
C24_FaultsAreReturnedErrors ==
    (probe.op = "Check" /\ ConfigFault(probe.in))
        => (~probe.out.panic /\ probe.out.err # Nil)

-----------------------------------------------------------------------------
(* C25, C26 *)

(* C25: two calls of Run from the same parent context share no state that   *)
(* changes: the list of subcommand pairs each one's context gives holds     *)
(* the parent's pairs and its own, and nothing of the other call.           *)
C25_SiblingsShareNothing ==
    probe.op = "siblings" =>
        /\ probe.out.first = probe.in[1] \o <<probe.in[2]>>
        /\ probe.out.second = probe.in[1] \o <<probe.in[3]>>

(* C26: subcmdPairList of a context with no pairs recorded is empty, and    *)
(* after addSubcmdPair along a chain of contexts with the names n1, ..., nk *)
(* the list of the last context is those k pairs in the order recorded.     *)
C26_PairsInInsertionOrder ==
    probe.op = "pairs" => probe.out = probe.in

(* The list of a chain of two different names has been read. *)
C26_Witness ==
    /\ probe.op = "pairs"
    /\ Len(probe.in) >= 2
    /\ probe.in[1] # probe.in[2]
    /\ probe.out = probe.in

-----------------------------------------------------------------------------
(* C27 *)

(* C27: when ToFlagSet returns without error, the pointers and the          *)
(* positional parameters it returns are together as many as the params;     *)
(* when parseArgs returns without error, its result has len(params) + 2     *)
(* values if variadic is false and at least len(params) + 1 if it is true.  *)
C27_ResultLengths ==
    /\ (probe.op = "ToFlagSet" /\ probe.out.err = Nil)
           => Len(probe.out.ptrs) + Len(probe.out.positional) = Len(probe.in)
    /\ (probe.op = "parseArgs" /\ probe.out.err = Nil)
           => IF probe.in.variadic
              THEN Len(probe.out.argvals) >= Len(probe.in.params) + 1
              ELSE Len(probe.out.argvals) = Len(probe.in.params) + 2

(* parseArgs has bound a flag and a positional of a list and left no token  *)
(* for the tail.                                                            *)
C27_Witness ==
    /\ probe.op = "parseArgs"
    /\ probe.out.err = Nil
    /\ ~probe.in.variadic
    /\ \E i, j \in 1..Len(probe.in.params) :
           IsFlagParam(probe.in.params[i]) /\ ~IsFlagParam(probe.in.params[j])
    /\ Len(probe.in.args) = 2
    /\ Len(probe.out.argvals) = Len(probe.in.params) + 2
    /\ probe.out.argvals[Len(probe.out.argvals)].v = <<>>

-----------------------------------------------------------------------------
(* C28 *)

(* SuppressCheck is false where WithSuppressCheck was never applied, and    *)
(* otherwise the value given to the nearest WithSuppressCheck.              *)
SuppressCheckIsNearest ==
    probe.op = "SuppressCheck" =>
        probe.out = IF probe.in = <<>> THEN FALSE ELSE probe.in[Len(probe.in)]

(* C28: unless SuppressCheck(ctx) is true, Run calls CheckMap on the Cmd's  *)
(* subcommands before it dispatches, and when CheckMap does not return nil  *)
(* Run returns without having called any handler.                           *)
C28_CheckMapBeforeDispatch ==
    (pc = "done" /\ Registered /\ ~SuppressCheck(ctx) /\ Returns(Nil) \notin CheckMap(SubcmdNames))
        => calls = 0

-----------------------------------------------------------------------------
(* C29 *)

(* The optional positional parameter declared with the kind and the Default of p. *)
OptionalTwin(p) == Param(<<"p", "?">>, p.Type, p.Default)

(* ToFlagSet has returned for a list of one flag parameter. *)
OneFlagDefined ==
    /\ probe.op = "ToFlagSet"
    /\ Len(probe.in) = 1
    /\ IsFlagParam(probe.in[1])

(* C29: for every kind K and Default D, ToFlagSet returns an error for a    *)
(* flag declared (K, D) if and only if parsePositionalArg returns an error  *)
(* for an optional positional declared (K, D) when no token remains.        *)
C29_FlagAndPositionalRejectAlike ==
    OneFlagDefined =>
        (probe.out.err # Nil
             <=> parsePositionalArg(OptionalTwin(probe.in[1]), <<>>, <<>>, heap).err # Nil)

-----------------------------------------------------------------------------
(* C30 *)

(* The value of a token converted for the kind of p. *)
TokenValue(p, tok) ==
    CASE p.Type = TBool -> Scalar("bool", ParseBool(tok).val)
      [] p.Type = TInt -> Scalar("int", ParseInt(tok, 32).val)
      [] p.Type = TInt64 -> Scalar("int64", ParseInt(tok, 64).val)
      [] p.Type = TUint -> Scalar("uint", ParseUint(tok, 32).val)
      [] p.Type = TUint64 -> Scalar("uint64", ParseUint(tok, 64).val)
      [] p.Type = TFloat64 -> Scalar("float64", ParseFloat(tok).val)
      [] p.Type = TDuration -> Scalar("time.Duration", ParseDuration(tok).val)
      [] p.Type = TString -> Scalar("string", tok)
      [] OTHER -> p.Default

(* parsePositionalArg has returned for a required positional and a token    *)
(* that is well-formed for its kind.                                        *)
BoundWellFormedToken ==
    /\ probe.op = "parsePositionalArg"
    /\ ~IsOptional(probe.in.p)
    /\ TokenError(probe.in.p, probe.in.args[1]) = Nil

(* The token has been bound: its value is handed on and the token consumed. *)
TokenBound ==
    /\ probe.out.err = Nil
    /\ probe.out.args = <<>>
    /\ probe.out.argvals = <<TokenValue(probe.in.p, probe.in.args[1])>>
    /\ probe.in.p.Type = TValue
           => probe.out.heap = ValueSet(heap, TextOf(probe.in.p.Default), probe.in.args[1])

(* C30 as stated: binding a required positional to a token well-formed for  *)
(* its kind succeeds and yields the token's value whatever the Default is,  *)
(* a nil or wrongly typed one included.                                     *)
C30_TokenBindsWhateverDefault == BoundWellFormedToken => TokenBound

(* C30 amended: it succeeds and yields the token's value when the Default   *)
(* coerces to the kind; when the Default does not, it returns a ParseErr    *)
(* and binds nothing, though the token is there.                            *)
C30_TokenBindsWhenDefaultCoerces ==
    BoundWellFormedToken =>
        IF Coercible(probe.in.p.Type, probe.in.p.Default) THEN TokenBound
        ELSE /\ ErrorsAs(probe.out.err, "ParseErr")
             /\ probe.out.args = probe.in.args
             /\ probe.out.argvals = <<>>

(* A well-formed token for an Int positional whose Default is nil has been  *)
(* turned down with a ParseErr.                                             *)
C30_Witness ==
    /\ BoundWellFormedToken
    /\ probe.in.p.Type = TInt
    /\ probe.in.p.Default = NilValue
    /\ ErrorsAs(probe.out.err, "ParseErr")

=============================================================================
